---------------------------- MODULE Spec2Model ----------------------------
(***************************************************************************)
(* Model of the scheduling rule engine (src/scheduling_rules.js, v2.2):    *)
(* the rule handlers, the rule registries and RuleEngine.validate, with    *)
(* the calendar grid (the DOM cells the engine highlights) as the sink.    *)
(*                                                                         *)
(* Dates.  A Date is modelled by its day offset in the target month:       *)
(* new Date(year, month, k) is the integer k, so 1..DaysInMonth are the    *)
(* days of the month, 0 is the last day of the previous month and          *)
(* DaysInMonth + 1 the first day of the next one.  formatDate is           *)
(* injective on dates, so the schedule, holiday and availability maps are  *)
(* keyed by the same offsets; DateText renders an offset inside a reason.  *)
(*                                                                         *)
(* Text.  A JavaScript string is a sequence of tokens (TLA+ strings); a    *)
(* template literal is the concatenation of the tokens of its parts.       *)
(***************************************************************************)
EXTENDS Integers, Sequences, FiniteSets, TLC

VARIABLES
    scheduleData,         \* params.scheduleData: day -> sequence of {employee, shift}
    holidayDates,         \* params.holidayDates: day -> BOOLEAN (TRUE = holiday)
                          \* (the maps and rule lists are optional: see Present, NoMap)
    employeeAvailability, \* params.employeeAvailability: employee -> day -> BOOLEAN
    employeeRules,        \* schedulingConditions.employeeRules
    shiftRules,           \* schedulingConditions.shiftRules
    grid,                 \* params.calendarGrid: displayed day -> cell
    pc,                   \* position inside RuleEngine.validate
    idx,                  \* index of the next rule of the current forEach
    totalConflicts,       \* the local totalConflicts of validate (a JavaScript value)
    events,               \* the sink calls of the current run, in order
    result,               \* what validate returned (NoResult before it returns)
    runs,                 \* the outcomes of the runs that ended, oldest first
    call,                 \* the arguments of a direct call of one function
    ret                   \* what that call returned (NoResult before it returns)

vars == <<scheduleData, holidayDates, employeeAvailability, employeeRules, shiftRules,
          grid, pc, idx, totalConflicts, events, result, runs, call, ret>>

-----------------------------------------------------------------------------
(* Bounds of the model *)

DaysInMonth == 4      \* new Date(year, month + 1, 0).getDate(), scaled down
MaxThreshold == 3     \* largest rule.value of a maxConsecutiveWorkDays / balanceShifts rule
MaxStaff == 2         \* largest rule.value of a minStaff rule
MaxRules == 2         \* longest employeeRules list of a validate run

Employees == {"A", "B"}
WorkShifts == {"day", "evening", "night", "weekend-day", "weekend-night"}
ShiftKinds == WorkShifts \cup {"off"}

\* An optional parameter (a map, a rule list) is a record: present is FALSE when the
\* parameter is null or undefined, and `it` is the value when it is present.
Present(x) == [present |-> TRUE, it |-> x]
NoMap == [present |-> FALSE, it |-> <<>>]
NoResult == "none"

MonthDays == 1..DaysInMonth
AllDays == (1 - (MaxThreshold + 1))..(DaysInMonth + 1)

-----------------------------------------------------------------------------
(* JavaScript values and text *)

Digit == <<"0", "1", "2", "3", "4", "5", "6", "7", "8", "9">>

RECURSIVE NumToStr(_)
\* String(n) of a non-negative integer, as tokens
NumToStr(n) ==
    IF n < 10 THEN <<Digit[n + 1]>>
    ELSE NumToStr(n \div 10) \o <<Digit[(n % 10) + 1]>>

\* String(n) of any integer
IntToStr(n) == IF n < 0 THEN <<"-">> \o NumToStr(0 - n) ELSE NumToStr(n)

\* formatDate(date) of the date at offset d, as tokens
DateText(d) == <<"D">> \o IntToStr(d)

JsNumber(n) == [t |-> "number", n |-> n, s |-> <<>>]
JsString(s) == [t |-> "string", n |-> 0, s |-> s]
JsNaN == [t |-> "NaN", n |-> 0, s |-> <<>>]
JsUndefined == [t |-> "undefined", n |-> 0, s |-> <<>>]

\* String(v)
JsToStr(v) == IF v.t = "number" THEN IntToStr(v.n)
              ELSE IF v.t = "string" THEN v.s
              ELSE <<v.t>>

\* a + b, a a number or a string: numeric addition of two numbers, else concatenation
JsPlus(a, b) ==
    IF a.t = "string" \/ b.t = "string" THEN JsString(JsToStr(a) \o JsToStr(b))
    ELSE IF a.t = "number" /\ b.t = "number" THEN JsNumber(a.n + b.n)
    ELSE JsNaN

\* v === 0
JsIsZero(v) == v.t = "number" /\ v.n = 0

IsDigit(tok) == \E i \in 1..Len(Digit) : Digit[i] = tok
DigitVal(tok) == (CHOOSE i \in 1..Len(Digit) : Digit[i] = tok) - 1

RECURSIVE DigitsValue(_, _)
\* the number written by the digit tokens s, continuing from acc
DigitsValue(s, acc) ==
    IF s = <<>> THEN acc ELSE DigitsValue(Tail(s), acc * 10 + DigitVal(Head(s)))

RECURSIVE DigitPrefix(_)
\* the longest prefix of s made of digits
DigitPrefix(s) ==
    IF s = <<>> \/ ~IsDigit(Head(s)) THEN <<>> ELSE <<Head(s)>> \o DigitPrefix(Tail(s))

\* parseInt(v, 10): the leading digits of String(v), NaN when there are none
parseInt(v) ==
    IF v.t = "number" THEN v
    ELSE IF v.t = "string" /\ DigitPrefix(v.s) # <<>>
         THEN JsNumber(DigitsValue(DigitPrefix(v.s), 0))
    ELSE JsNaN

\* Number(v), the conversion a comparison applies to its operand
ToNumber(v) ==
    IF v.t = "number" THEN v
    ELSE IF v.t = "string" /\ DigitPrefix(v.s) = v.s THEN JsNumber(DigitsValue(v.s, 0))
    ELSE JsNaN

\* n < v for a number n: false when v does not convert to a number
JsLess(n, v) == ToNumber(v).t = "number" /\ n < ToNumber(v).n

\* a || b for a number a: b when a is 0 or NaN
JsOr(a, b) == IF a.t = "number" /\ a.n # 0 THEN a ELSE b

-----------------------------------------------------------------------------
(* Date & holiday utilities, shift adjacency *)

\* scheduleData[dateStr] || []
ShiftsOn(sd, d) == IF d \in DOMAIN sd THEN sd[d] ELSE <<>>

isHoliday(d, holidays) ==
    /\ holidays.present
    /\ d \in DOMAIN holidays.it
    /\ holidays.it[d] = TRUE

WEEKDAY_SHIFT_ORDER == <<"day", "evening", "night">>
WEEKEND_SHIFT_ORDER == <<"weekend-day", "weekend-night">>

\* order.indexOf(x): the 0-based index of the first occurrence, -1 when absent
IndexOf(order, x) ==
    IF \E i \in 1..Len(order) : order[i] = x
    THEN (CHOOSE i \in 1..Len(order) :
              order[i] = x /\ \A j \in 1..(i - 1) : order[j] # x) - 1
    ELSE -1

getShiftPosition(shiftType, holiday) ==
    IndexOf(IF holiday THEN WEEKEND_SHIFT_ORDER ELSE WEEKDAY_SHIFT_ORDER, shiftType)

hasEnoughShiftGap(shift1, shift2, isHoliday1, isHoliday2) ==
    IF isHoliday1 # isHoliday2 THEN TRUE
    ELSE IF shift1 = "off" \/ shift2 = "off" THEN TRUE
    ELSE IF isHoliday1 THEN TRUE
    ELSE LET pos1 == getShiftPosition(shift1, FALSE)
             pos2 == getShiftPosition(shift2, FALSE)
             steps == (pos2 - pos1 + Len(WEEKDAY_SHIFT_ORDER)) % Len(WEEKDAY_SHIFT_ORDER)
         IN IF pos1 = -1 \/ pos2 = -1 THEN TRUE ELSE steps > 1

-----------------------------------------------------------------------------
(* The calendar grid *)

EmptyCell == [conflict |-> FALSE, indicator |-> FALSE, tooltip |-> <<>>]

\* tooltip.innerHTML.includes(reason): reason occurs as a contiguous run of tokens
Includes(html, reason) ==
    \E i \in 0..(Len(html) - Len(reason)) :
        \A j \in 1..Len(reason) : html[i + j] = reason[j]

\* what innerHTML reads back for a text that was appended: '&' comes back as '&amp;'
EscapeHtml(reason) ==
    [i \in 1..Len(reason) |-> IF reason[i] = "&" THEN "&amp;" ELSE reason[i]]

clearValidationHighlightsKeep(g) == g

clearValidationHighlights(g) == [d \in DOMAIN g |-> EmptyCell]

highlightConflict(g, date, reason) ==
    IF date \notin DOMAIN g THEN g
    ELSE LET cell == g[date]
             html == cell.tooltip
         IN [g EXCEPT ![date] =
                [conflict |-> TRUE,
                 indicator |-> TRUE,
                 tooltip |-> IF Includes(html, reason) THEN html
                             ELSE html \o <<"* ">> \o EscapeHtml(reason) \o <<"<br>">>]]

RECURSIVE highlightAll(_, _)
\* the calls of highlightConflict a handler made, applied in order
highlightAll(g, reports) ==
    IF reports = <<>> THEN g
    ELSE highlightAll(highlightConflict(g, Head(reports).date, Head(reports).reason),
                      Tail(reports))

Report(date, reason) == [date |-> date, reason |-> reason]
Outcome(count, reports) == [count |-> count, reports |-> reports]

-----------------------------------------------------------------------------
(* Rule handlers.  Each returns its conflictCount and, in `reports`, the   *)
(* calls of highlightConflict it made, in order.                           *)

\* (scheduleData[dateStr] || []).some(s => s.employee === employee && pred(s.shift))
SomeShift(sd, d, employee, kinds) ==
    \E i \in 1..Len(ShiftsOn(sd, d)) :
        ShiftsOn(sd, d)[i].employee = employee /\ ShiftsOn(sd, d)[i].shift \in kinds

\* s.shift !== 'off', over the shift kinds a schedule may hold
NotOff(sd, d) == {ShiftsOn(sd, d)[i].shift : i \in 1..Len(ShiftsOn(sd, d))} \ {"off"}

ConsecutiveReason(employee, consecutiveCount, maxDays) ==
    <<employee, " consecutive work day ">> \o IntToStr(consecutiveCount)
        \o <<" (over the limit of ">> \o IntToStr(maxDays) \o <<" days)">>

RECURSIVE ConsecutiveLoopNoLookback(_, _, _, _, _, _)
ConsecutiveLoopNoLookback(ctx, maxDays, d, consecutiveCount, conflictCount, reports) ==
    IF d > DaysInMonth THEN Outcome(conflictCount, reports)
    ELSE IF d < 1
    THEN ConsecutiveLoopNoLookback(ctx, maxDays, d + 1, 0, conflictCount, reports)
    ELSE IF SomeShift(ctx.scheduleData, d, ctx.rule.employee, NotOff(ctx.scheduleData, d))
    THEN IF consecutiveCount + 1 > maxDays
         THEN ConsecutiveLoopNoLookback(ctx, maxDays, d + 1, consecutiveCount + 1,
                  conflictCount + 1,
                  Append(reports, Report(d,
                      ConsecutiveReason(ctx.rule.employee, consecutiveCount + 1, maxDays))))
         ELSE ConsecutiveLoopNoLookback(ctx, maxDays, d + 1, consecutiveCount + 1,
                  conflictCount, reports)
    ELSE ConsecutiveLoopNoLookback(ctx, maxDays, d + 1, 0, conflictCount, reports)

RECURSIVE ConsecutiveLoop(_, _, _, _, _, _)
\* the for loop of checkMaxConsecutiveWorkDays, from date d to the end of the month
ConsecutiveLoop(ctx, maxDays, d, consecutiveCount, conflictCount, reports) ==
    IF d > DaysInMonth THEN Outcome(conflictCount, reports)
    ELSE IF SomeShift(ctx.scheduleData, d, ctx.rule.employee, NotOff(ctx.scheduleData, d))
    THEN IF consecutiveCount + 1 > maxDays /\ d \in MonthDays
         THEN ConsecutiveLoop(ctx, maxDays, d + 1, consecutiveCount + 1,
                  conflictCount + 1,
                  Append(reports, Report(d,
                      ConsecutiveReason(ctx.rule.employee, consecutiveCount + 1, maxDays))))
         ELSE ConsecutiveLoop(ctx, maxDays, d + 1, consecutiveCount + 1,
                  conflictCount, reports)
    ELSE ConsecutiveLoop(ctx, maxDays, d + 1, 0, conflictCount, reports)

\* new Date(year, month, 1 - NaN) is an invalid date and d <= endDate is false at once
checkMaxConsecutiveWorkDays(ctx) ==
    LET maxDays == parseInt(ctx.rule.value)
    IN IF maxDays.t # "number" THEN Outcome(0, <<>>)
       ELSE ConsecutiveLoop(ctx, maxDays.n, 1 - maxDays.n, 0, 0, <<>>)

No24Reason(employee, prev, cur) ==
    <<employee, " 24 hours of work (">> \o DateText(prev) \o <<" night -> ">>
        \o DateText(cur) \o <<" day)">>

No24PrevReason(employee) == <<employee, " day shift right after a night shift">>

RECURSIVE No24LoopNightAnyKind(_, _, _, _)
No24LoopNightAnyKind(ctx, day, conflictCount, reports) ==
    IF day > DaysInMonth THEN Outcome(conflictCount, reports)
    ELSE LET employee == ctx.rule.employee
             dayShifts == IF isHoliday(day, ctx.holidayDates)
                          THEN {"weekend-day"} ELSE {"day"}
             hadNightShift == SomeShift(ctx.scheduleData, day - 1, employee,
                                        {"night", "weekend-night"})
             hasDayShift == SomeShift(ctx.scheduleData, day, employee, dayShifts)
         IN IF hadNightShift /\ hasDayShift
            THEN No24LoopNightAnyKind(ctx, day + 1, conflictCount + 1,
                     reports \o <<Report(day, No24Reason(employee, day - 1, day)),
                                  Report(day - 1, No24PrevReason(employee))>>)
            ELSE No24LoopNightAnyKind(ctx, day + 1, conflictCount, reports)

RECURSIVE No24Loop(_, _, _, _)
\* the for loop of checkNo24HourShift, from day `day` to the end of the month
No24Loop(ctx, day, conflictCount, reports) ==
    IF day > DaysInMonth THEN Outcome(conflictCount, reports)
    ELSE LET employee == ctx.rule.employee
             nightShifts == IF isHoliday(day - 1, ctx.holidayDates)
                            THEN {"weekend-night"} ELSE {"night"}
             dayShifts == IF isHoliday(day, ctx.holidayDates)
                          THEN {"weekend-day"} ELSE {"day"}
             hadNightShift == SomeShift(ctx.scheduleData, day - 1, employee, nightShifts)
             hasDayShift == SomeShift(ctx.scheduleData, day, employee, dayShifts)
         IN IF hadNightShift /\ hasDayShift
            THEN No24Loop(ctx, day + 1, conflictCount + 1,
                     reports \o <<Report(day, No24Reason(employee, day - 1, day)),
                                  Report(day - 1, No24PrevReason(employee))>>)
            ELSE No24Loop(ctx, day + 1, conflictCount, reports)

checkNo24HourShift(ctx) == No24Loop(ctx, 1, 0, <<>>)

NoShift == "none"

\* (scheduleData[dateStr] || []).find(s => s.employee === employee && s.shift !== 'off'),
\* as the shift of the entry found, NoShift when find returns undefined
FirstWorkShift(sd, d, employee) ==
    LET shifts == ShiftsOn(sd, d)
        hits == {i \in 1..Len(shifts) :
                     shifts[i].employee = employee /\ shifts[i].shift # "off"}
    IN IF hits = {} THEN NoShift
       ELSE shifts[CHOOSE i \in hits : \A j \in hits : i <= j].shift

GapReason(employee, shift1, shift2) ==
    <<employee, " shift gap too short (", shift1, " -> ", shift2, ")">>

RECURSIVE TransitionLoop(_, _, _, _)
\* the for loop of checkNoDirectShiftTransition, from day `day` to the end of the month
TransitionLoop(ctx, day, conflictCount, reports) ==
    IF day > DaysInMonth THEN Outcome(conflictCount, reports)
    ELSE LET employee == ctx.rule.employee
             currentIsHoliday == isHoliday(day, ctx.holidayDates)
             nextIsHoliday == isHoliday(day + 1, ctx.holidayDates)
             todayShift == FirstWorkShift(ctx.scheduleData, day, employee)
             tomorrowShift == FirstWorkShift(ctx.scheduleData, day + 1, employee)
         IN IF /\ todayShift # NoShift
               /\ tomorrowShift # NoShift
               /\ ~hasEnoughShiftGap(todayShift, tomorrowShift,
                                     currentIsHoliday, nextIsHoliday)
            THEN TransitionLoop(ctx, day + 1, conflictCount + 1,
                     reports \o
                     <<Report(day, GapReason(employee, todayShift, tomorrowShift)),
                       Report(day + 1, GapReason(employee, todayShift, tomorrowShift))>>)
            ELSE TransitionLoop(ctx, day + 1, conflictCount, reports)

checkNoDirectShiftTransitionInsideMonth(ctx) ==
    LET out == TransitionLoop(ctx, 1, 0, <<>>)
        kept == SelectSeq(out.reports, LAMBDA r : r.date \in MonthDays)
    IN Outcome(Len(kept) \div 2, kept)

checkNoDirectShiftTransition(ctx) == TransitionLoop(ctx, 1, 0, <<>>)

\* the label table params.shiftTypes
shiftTypes ==
    ("day" :> "Day shift") @@ ("evening" :> "Evening shift") @@ ("night" :> "Night shift")
    @@ ("weekend-day" :> "Holiday day shift") @@ ("weekend-night" :> "Holiday night shift")
    @@ ("off" :> "Day off")

\* `${shiftTypes[rule.shift]}`
ShiftLabel(k) == IF k \in DOMAIN shiftTypes THEN <<shiftTypes[k]>> ELSE <<"undefined">>

\* a count that takes a shift's holiday kind for the kind itself
StaffCountClass(sd, d, kind) ==
    Cardinality({i \in 1..Len(ShiftsOn(sd, d)) :
        \/ ShiftsOn(sd, d)[i].shift = kind
        \/ kind = "day" /\ ShiftsOn(sd, d)[i].shift = "weekend-day"
        \/ kind = "night" /\ ShiftsOn(sd, d)[i].shift = "weekend-night"})

\* (scheduleData[dateStr] || []).filter(s => s.shift === kind).length
StaffCount(sd, d, kind) ==
    Cardinality({i \in 1..Len(ShiftsOn(sd, d)) : ShiftsOn(sd, d)[i].shift = kind})

MinStaffReason(rule, staffCount) ==
    ShiftLabel(rule.shift) \o <<" short of staff (now: ">> \o IntToStr(staffCount)
        \o <<", needed: ">> \o JsToStr(rule.value) \o <<")">>

RECURSIVE MinStaffLoop(_, _, _, _)
\* the for loop of checkMinStaff, from day `day` to the end of the month
MinStaffLoop(ctx, day, conflictCount, reports) ==
    IF day > DaysInMonth THEN Outcome(conflictCount, reports)
    ELSE LET staffCount == StaffCount(ctx.scheduleData, day, ctx.rule.shift)
         IN IF JsLess(staffCount, ctx.rule.value)
            THEN MinStaffLoop(ctx, day + 1, conflictCount + 1,
                     Append(reports, Report(day, MinStaffReason(ctx.rule, staffCount))))
            ELSE MinStaffLoop(ctx, day + 1, conflictCount, reports)

checkMinStaff(ctx) == MinStaffLoop(ctx, 1, 0, <<>>)

DefaultMaxDifference == 2

DayClass == {"day", "weekend-day"}
NightClass == {"night", "weekend-night"}

RECURSIVE ClassCount(_, _, _, _)
\* the counting loop of checkShiftBalance for one class of shifts, from day `day` on
ClassCount(sd, employee, kinds, day) ==
    IF day > DaysInMonth THEN 0
    ELSE Cardinality({i \in 1..Len(ShiftsOn(sd, day)) :
             ShiftsOn(sd, day)[i].employee = employee
                 /\ ShiftsOn(sd, day)[i].shift \in kinds})
         + ClassCount(sd, employee, kinds, day + 1)

RECURSIVE LastShiftDate(_, _, _, _)
\* the backward loop of checkShiftBalance: the latest day <= `day` of the month on which
\* the employee holds a shift of `kinds`, 0 when lastShiftDate stays null
LastShiftDate(sd, employee, kinds, day) ==
    IF day < 1 THEN 0
    ELSE IF SomeShift(sd, day, employee, kinds) THEN day
    ELSE LastShiftDate(sd, employee, kinds, day - 1)

Abs(x) == IF x < 0 THEN 0 - x ELSE x

BalanceReason(employee, dayShiftCount, nightShiftCount, difference, maxDifference) ==
    <<employee, " unbalanced shifts: day ">> \o IntToStr(dayShiftCount)
        \o <<", night ">> \o IntToStr(nightShiftCount) \o <<" (difference ">>
        \o IntToStr(difference) \o <<", limit ">> \o IntToStr(maxDifference) \o <<")">>

BalanceOutcome(ctx, maxDifference) ==
    LET sd == ctx.scheduleData
        employee == ctx.rule.employee
        dayShiftCount == ClassCount(sd, employee, DayClass, 1)
        nightShiftCount == ClassCount(sd, employee, NightClass, 1)
        difference == Abs(dayShiftCount - nightShiftCount)
        dominantShift == IF dayShiftCount > nightShiftCount THEN DayClass ELSE NightClass
        lastShiftDate == LastShiftDate(sd, employee, dominantShift, DaysInMonth)
    IN IF difference > maxDifference /\ (dayShiftCount > 0 \/ nightShiftCount > 0)
       THEN Outcome(1,
                IF lastShiftDate # 0
                THEN <<Report(lastShiftDate,
                          BalanceReason(employee, dayShiftCount, nightShiftCount,
                                        difference, maxDifference))>>
                ELSE <<>>)
       ELSE Outcome(0, <<>>)

checkShiftBalance(ctx) ==
    BalanceOutcome(ctx, JsOr(parseInt(ctx.rule.value), JsNumber(DefaultMaxDifference)).n)

UnavailableReason(employee) == <<employee, " is set unavailable on this day">>

\* a test that takes a missing entry for a false one
MarkedUnavailableOrMissing(av, employee, d) ==
    \/ employee \notin DOMAIN av.it
    \/ d \notin DOMAIN av.it[employee]
    \/ av.it[employee][d] = FALSE

\* employeeAvailability[employee]?.[dateStr] === false
MarkedUnavailable(av, employee, d) ==
    /\ employee \in DOMAIN av.it
    /\ d \in DOMAIN av.it[employee]
    /\ av.it[employee][d] = FALSE

RECURSIVE AvailabilityLoop(_, _, _, _, _)
\* the loops of checkEmployeeAvailability, from entry i of day `day` on
AvailabilityLoop(ctx, day, i, conflictCount, reports) ==
    IF day > DaysInMonth THEN Outcome(conflictCount, reports)
    ELSE IF i > Len(ShiftsOn(ctx.scheduleData, day))
    THEN AvailabilityLoop(ctx, day + 1, 1, conflictCount, reports)
    ELSE LET shift == ShiftsOn(ctx.scheduleData, day)[i]
         IN IF /\ shift.shift # "off"
               /\ MarkedUnavailable(ctx.employeeAvailability, shift.employee, day)
            THEN AvailabilityLoop(ctx, day, i + 1, conflictCount + 1,
                     Append(reports, Report(day, UnavailableReason(shift.employee))))
            ELSE AvailabilityLoop(ctx, day, i + 1, conflictCount, reports)

checkEmployeeAvailability(ctx) ==
    IF ~ctx.employeeAvailability.present THEN Outcome(0, <<>>)
    ELSE AvailabilityLoop(ctx, 1, 1, 0, <<>>)

\* a grouping that keeps the off entries
EmployeeShiftsWithOff(shifts, employee) ==
    LET mine == SelectSeq(shifts, LAMBDA s : s.employee = employee)
    IN [i \in 1..Len(mine) |-> mine[i].shift]

\* employeeShifts[employee] after the forEach of checkDuplicateAssignment
EmployeeShifts(shifts, employee) ==
    LET mine == SelectSeq(shifts, LAMBDA s : s.employee = employee /\ s.shift # "off")
    IN [i \in 1..Len(mine) |-> mine[i].shift]

RECURSIVE FirstSeen(_, _)
\* Object.keys(employeeShifts): the employees with a working shift, in order of first entry
FirstSeen(shifts, seen) ==
    IF shifts = <<>> THEN seen
    ELSE IF Head(shifts).shift # "off"
            /\ \A i \in 1..Len(seen) : seen[i] # Head(shifts).employee
    THEN FirstSeen(Tail(shifts), Append(seen, Head(shifts).employee))
    ELSE FirstSeen(Tail(shifts), seen)

RECURSIVE Join(_)
\* empShifts.join(', ')
Join(list) ==
    IF list = <<>> THEN <<>>
    ELSE IF Len(list) = 1 THEN <<list[1]>>
    ELSE <<list[1], ", ">> \o Join(Tail(list))

DuplicateReason(employee, empShifts) ==
    <<employee, " has several shifts on one day: ">> \o Join(empShifts)

RECURSIVE DuplicateLoop(_, _, _, _, _)
\* the loops of checkDuplicateAssignment, from the k-th employee of day `day` on
DuplicateLoop(ctx, day, k, conflictCount, reports) ==
    IF day > DaysInMonth THEN Outcome(conflictCount, reports)
    ELSE LET shifts == ShiftsOn(ctx.scheduleData, day)
             keys == FirstSeen(shifts, <<>>)
         IN IF k > Len(keys) THEN DuplicateLoop(ctx, day + 1, 1, conflictCount, reports)
            ELSE IF Len(EmployeeShifts(shifts, keys[k])) > 1
            THEN DuplicateLoop(ctx, day, k + 1, conflictCount + 1,
                     Append(reports, Report(day,
                         DuplicateReason(keys[k], EmployeeShifts(shifts, keys[k])))))
            ELSE DuplicateLoop(ctx, day, k + 1, conflictCount, reports)

checkDuplicateAssignment(ctx) == DuplicateLoop(ctx, 1, 1, 0, <<>>)

-----------------------------------------------------------------------------
(* Rule registries and RuleEngine.validate *)

EmployeeRuleTags ==
    {"maxConsecutiveWorkDays", "no24HourShift", "noDirectShiftTransition", "balanceShifts"}
ShiftRuleTags == {"minStaff"}

\* The registries are object literals, so a lookup by key also finds what they
\* inherit from Object.prototype: toString is a function returning a string,
\* __proto__ is Object.prototype itself, an object that cannot be called.
ObjectPrototype == ("toString" :> "function") @@ ("__proto__" :> "object")

Lookup(own, tag) ==
    IF tag \in own THEN "handler"
    ELSE IF tag \in DOMAIN ObjectPrototype THEN ObjectPrototype[tag]
    ELSE "undefined"

employeeRuleHandlers(tag, ctx) ==
    CASE tag = "maxConsecutiveWorkDays" -> checkMaxConsecutiveWorkDays(ctx)
      [] tag = "no24HourShift" -> checkNo24HourShift(ctx)
      [] tag = "noDirectShiftTransition" -> checkNoDirectShiftTransition(ctx)
      [] tag = "balanceShifts" -> checkShiftBalance(ctx)

shiftRuleHandlers(tag, ctx) == CASE tag = "minStaff" -> checkMinStaff(ctx)

\* Object.values(systemRuleHandlers), in insertion order
SystemRuleOrder == <<"employeeAvailability", "duplicateAssignment">>

systemRuleHandlers(tag, ctx) ==
    CASE tag = "employeeAvailability" -> checkEmployeeAvailability(ctx)
      [] tag = "duplicateAssignment" -> checkDuplicateAssignment(ctx)

NoRule == [type |-> "none", employee |-> "none", shift |-> "none", value |-> JsUndefined]

\* const context = {...}, and { ...context, rule }
Context(rule) ==
    [scheduleData |-> scheduleData, holidayDates |-> holidayDates,
     employeeAvailability |-> employeeAvailability, rule |-> rule]

\* if (handlers[rule.type]) totalConflicts += handlers[rule.type]({ ...context, rule }):
\* what the statement does for one rule: nothing, an addition, or a TypeError
Dispatch(own, rule, outcome) ==
    LET kind == Lookup(own, rule.type)
    IN CASE kind = "handler" ->
                [does |-> "add", value |-> JsNumber(outcome.count),
                 reports |-> outcome.reports]
         [] kind = "function" ->
                [does |-> "add", value |-> JsString(<<"[object Object]">>),
                 reports |-> <<>>]
         [] kind = "object" ->
                [does |-> "throw", value |-> JsUndefined, reports |-> <<>>]
         [] OTHER ->
                [does |-> "skip", value |-> JsUndefined, reports |-> <<>>]

Event(op, phase, date, reason) ==
    [op |-> op, phase |-> phase, date |-> date, reason |-> reason]

\* the highlightConflict calls of one handler, as sink events of a phase
ReportEvents(phase, reports) ==
    [i \in 1..Len(reports) |-> Event("report", phase, reports[i].date, reports[i].reason)]

RunRecord(how, res) ==
    [how |-> how, result |-> res, grid |-> grid', events |-> events']

Returned(total) == [returned |-> TRUE, totalConflicts |-> total, isValid |-> JsIsZero(total)]
NoReturn == [returned |-> FALSE, totalConflicts |-> JsUndefined, isValid |-> FALSE]

Inputs == <<scheduleData, holidayDates, employeeAvailability, employeeRules, shiftRules>>
Direct == <<call, ret>>

\* validate is entered: clearValidationHighlights(calendarGrid), totalConflicts = 0
ValidateStart ==
    /\ pc \in {"idle", "done", "threw"}
    /\ Len(runs) <= 1
    /\ grid' = clearValidationHighlights(grid)
    /\ events' = <<Event("clear", "start", 0, <<>>)>>
    /\ totalConflicts' = JsNumber(0)
    /\ result' = NoReturn
    /\ idx' = 1
    /\ pc' = "employeeRules"
    /\ UNCHANGED <<Inputs, Direct, runs>>

\* one turn of a rule list's forEach: the rule at idx goes through the registry
RuleStep(phase, rules, own, outcome) ==
    LET rule == rules[idx]
        d == Dispatch(own, rule, outcome)
    IN /\ events' = events \o ReportEvents(phase, d.reports)
       /\ grid' = highlightAll(grid, d.reports)
       /\ IF d.does = "throw"
          THEN /\ pc' = "threw"
               /\ runs' = Append(runs, RunRecord("threw", NoReturn))
               /\ UNCHANGED <<totalConflicts, idx>>
          ELSE /\ totalConflicts' =
                      IF d.does = "add" THEN JsPlus(totalConflicts, d.value)
                      ELSE totalConflicts
               /\ idx' = idx + 1
               /\ UNCHANGED <<pc, runs>>
       /\ UNCHANGED <<Inputs, Direct, result>>

EmployeeRuleStep ==
    /\ pc = "employeeRules"
    /\ employeeRules.present
    /\ idx <= Len(employeeRules.it)
    /\ RuleStep("employee", employeeRules.it, EmployeeRuleTags,
                IF employeeRules.it[idx].type \in EmployeeRuleTags
                THEN employeeRuleHandlers(employeeRules.it[idx].type,
                                          Context(employeeRules.it[idx]))
                ELSE Outcome(0, <<>>))

\* the employee rules are exhausted, or schedulingConditions.employeeRules is absent
EmployeeRulesEnd ==
    /\ pc = "employeeRules"
    /\ ~employeeRules.present \/ idx > Len(employeeRules.it)
    /\ pc' = "shiftRules"
    /\ idx' = 1
    /\ UNCHANGED <<Inputs, Direct, grid, totalConflicts, events, result, runs>>

ShiftRuleStep ==
    /\ pc = "shiftRules"
    /\ shiftRules.present
    /\ idx <= Len(shiftRules.it)
    /\ RuleStep("shift", shiftRules.it, ShiftRuleTags,
                IF shiftRules.it[idx].type \in ShiftRuleTags
                THEN shiftRuleHandlers(shiftRules.it[idx].type,
                                       Context(shiftRules.it[idx]))
                ELSE Outcome(0, <<>>))

ShiftRulesEnd ==
    /\ pc = "shiftRules"
    /\ ~shiftRules.present \/ idx > Len(shiftRules.it)
    /\ pc' = "systemRules"
    /\ idx' = 1
    /\ UNCHANGED <<Inputs, Direct, grid, totalConflicts, events, result, runs>>

\* one turn of Object.values(systemRuleHandlers).forEach
SystemRuleStep ==
    /\ pc = "systemRules"
    /\ idx <= Len(SystemRuleOrder)
    /\ LET outcome == systemRuleHandlers(SystemRuleOrder[idx], Context(NoRule))
       IN /\ totalConflicts' = JsPlus(totalConflicts, JsNumber(outcome.count))
          /\ events' = events \o ReportEvents("system", outcome.reports)
          /\ grid' = highlightAll(grid, outcome.reports)
    /\ idx' = idx + 1
    /\ pc' = IF idx = Len(SystemRuleOrder) THEN "finish" ELSE pc
    /\ UNCHANGED <<Inputs, Direct, result, runs>>

\* the alert and the return statement
ValidateFinish ==
    /\ pc = "finish"
    /\ events' = Append(events,
           IF JsIsZero(totalConflicts)
           THEN Event("alert", "end", 0, <<"no conflicts found">>)
           ELSE Event("alert", "end", 0,
                      <<"found ">> \o JsToStr(totalConflicts) \o <<" conflicts">>))
    /\ result' = Returned(totalConflicts)
    /\ grid' = grid
    /\ runs' = Append(runs, RunRecord("returned", result'))
    /\ pc' = "done"
    /\ UNCHANGED <<Inputs, Direct, totalConflicts, idx>>

Next ==
    \/ ValidateStart
    \/ EmployeeRuleStep
    \/ EmployeeRulesEnd
    \/ ShiftRuleStep
    \/ ShiftRulesEnd
    \/ SystemRuleStep
    \/ ValidateFinish

-----------------------------------------------------------------------------
(* Inputs of a validation run *)

Shift(employee, shift) == [employee |-> employee, shift |-> shift]
Rule(type, employee, shift, value) ==
    [type |-> type, employee |-> employee, shift |-> shift, value |-> value]

\* what one day of the schedule holds in a validation run
DayLists ==
    {<<>>,
     <<Shift("A", "night")>>,
     <<Shift("A", "day"), Shift("A", "evening")>>,
     <<Shift("B", "day"), Shift("A", "off")>>}

\* schedules that repeat every second day
Schedules ==
    {[d \in AllDays |-> pattern[d % 2]] : pattern \in [{0, 1} -> DayLists]}

EmployeeRuleChoices ==
    {Rule("maxConsecutiveWorkDays", "A", "none", JsNumber(1)),
     Rule("no24HourShift", "A", "none", JsUndefined),
     Rule("noDirectShiftTransition", "A", "none", JsUndefined),
     Rule("balanceShifts", "A", "none", JsNumber(1)),
     Rule("unknownRule", "A", "none", JsNumber(1)),
     Rule("toString", "A", "none", JsNumber(1)),
     Rule("__proto__", "A", "none", JsNumber(1))}

\* a rule list that is absent, or holds up to maxLen of the choices
RuleLists(choices, maxLen) ==
    {NoMap} \cup {Present(list) : list \in UNION {[1..n -> choices] : n \in 0..maxLen}}

ShiftRuleLists ==
    {NoMap, Present(<<>>),
     Present(<<Rule("minStaff", "none", "day", JsNumber(1))>>),
     Present(<<Rule("unknownRule", "none", "day", JsNumber(1)),
               Rule("minStaff", "none", "night", JsNumber(1))>>)}

\* the optional maps: both absent, or day 2 a holiday and A unavailable on days 1 and 2
OptionalMaps ==
    {[holidays |-> NoMap, availability |-> NoMap],
     [holidays |-> Present([d \in AllDays |-> d = 2]),
      availability |-> Present([e \in {"A"} |-> [d \in {1, 2} |-> FALSE]])]}

EmptyGrid == [d \in MonthDays |-> EmptyCell]

EngineIdle ==
    /\ grid = EmptyGrid
    /\ pc = "idle"
    /\ idx = 1
    /\ totalConflicts = JsNumber(0)
    /\ events = <<>>
    /\ result = NoReturn
    /\ runs = <<>>

NoCall ==
    /\ call = NoResult
    /\ ret = NoResult

Init ==
    /\ scheduleData \in Schedules
    /\ \E maps \in OptionalMaps :
           /\ holidayDates = maps.holidays
           /\ employeeAvailability = maps.availability
    /\ employeeRules \in RuleLists(EmployeeRuleChoices, MaxRules)
    /\ shiftRules \in ShiftRuleLists
    /\ EngineIdle
    /\ NoCall

Spec == Init /\ [][Next]_vars

-----------------------------------------------------------------------------
(* What a run is expected to do, computed from the inputs alone *)

ListOf(opt) == IF opt.present THEN opt.it ELSE <<>>

\* the outcomes of the handlers registered for the rules of the configuration, then of
\* the system handlers, in the order validate calls them
EmployeeOutcomes ==
    LET ran == SelectSeq(ListOf(employeeRules), LAMBDA r : r.type \in EmployeeRuleTags)
    IN [i \in 1..Len(ran) |-> employeeRuleHandlers(ran[i].type, Context(ran[i]))]

ShiftOutcomes ==
    LET ran == SelectSeq(ListOf(shiftRules), LAMBDA r : r.type \in ShiftRuleTags)
    IN [i \in 1..Len(ran) |-> shiftRuleHandlers(ran[i].type, Context(ran[i]))]

SystemOutcomes ==
    [i \in 1..Len(SystemRuleOrder) |-> systemRuleHandlers(SystemRuleOrder[i], Context(NoRule))]

HandlerOutcomes == EmployeeOutcomes \o ShiftOutcomes \o SystemOutcomes

RECURSIVE SumOfCounts(_)
SumOfCounts(outcomes) ==
    IF outcomes = <<>> THEN 0 ELSE Head(outcomes).count + SumOfCounts(Tail(outcomes))

RECURSIVE AllReports(_)
AllReports(outcomes) ==
    IF outcomes = <<>> THEN <<>> ELSE Head(outcomes).reports \o AllReports(Tail(outcomes))

\* some rule's tag is no registered handler but a key the registries inherit
InheritedTagUsed ==
    \/ \E i \in 1..Len(ListOf(employeeRules)) :
           Lookup(EmployeeRuleTags, ListOf(employeeRules)[i].type) \in {"function", "object"}
    \/ \E i \in 1..Len(ListOf(shiftRules)) :
           Lookup(ShiftRuleTags, ListOf(shiftRules)[i].type) \in {"function", "object"}

\* some rule's tag is neither registered nor inherited
MissingTagUsed ==
    \/ \E i \in 1..Len(ListOf(employeeRules)) :
           Lookup(EmployeeRuleTags, ListOf(employeeRules)[i].type) = "undefined"
    \/ \E i \in 1..Len(ListOf(shiftRules)) :
           Lookup(ShiftRuleTags, ListOf(shiftRules)[i].type) = "undefined"

RunEnded == pc \in {"done", "threw"}

\* the reports among the sink events
ReportsOf(evs) ==
    LET reps == SelectSeq(evs, LAMBDA e : e.op = "report")
    IN [i \in 1..Len(reps) |-> Report(reps[i].date, reps[i].reason)]

-----------------------------------------------------------------------------
(* Claims about RuleEngine.validate *)

\* C1: for every schedule, rule configuration and month, validate returns
\* totalConflicts equal to the sum of the conflict counts of the employee-rule and
\* shift-rule handlers that ran and of every system-rule handler; totalConflicts is
\* an integer >= 0; isValid is true exactly when totalConflicts is 0.
C1_TotalIsSumOfHandlerCounts ==
    RunEnded =>
        /\ result.returned
        /\ result.totalConflicts = JsNumber(SumOfCounts(HandlerOutcomes))
        /\ result.totalConflicts.n >= 0
        /\ result.isValid <=> (SumOfCounts(HandlerOutcomes) = 0)

\* C1, for the configurations whose tags are registered or missing altogether: the
\* statement of C1 holds of every run that uses no key inherited by a registry.
C1_TotalIsSumUnlessInheritedTag ==
    (RunEnded /\ ~InheritedTagUsed) =>
        /\ result.returned
        /\ result.totalConflicts = JsNumber(SumOfCounts(HandlerOutcomes))
        /\ result.totalConflicts.n >= 0
        /\ result.isValid <=> (SumOfCounts(HandlerOutcomes) = 0)

\* C2: a rule whose type tag has no registered handler is skipped without error and
\* contributes no conflict and no finding: the run returns, and its total and the
\* findings on the grid are those of the registered rules and the system rules alone,
\* which always run.
C2_UnregisteredTagsSkipped ==
    RunEnded =>
        /\ result.returned
        /\ result.totalConflicts = JsNumber(SumOfCounts(HandlerOutcomes))
        /\ ReportsOf(events) = AllReports(HandlerOutcomes)
        /\ grid = highlightAll(EmptyGrid, AllReports(HandlerOutcomes))

\* C2, for the tags that are missing altogether (neither registered nor inherited
\* from Object.prototype): these are skipped as C2 says.
C2_MissingTagsSkipped ==
    (RunEnded /\ ~InheritedTagUsed) =>
        /\ result.returned
        /\ result.totalConflicts = JsNumber(SumOfCounts(HandlerOutcomes))
        /\ ReportsOf(events) = AllReports(HandlerOutcomes)
        /\ grid = highlightAll(EmptyGrid, AllReports(HandlerOutcomes))

\* a run with a missing tag ended, and the other rules did find conflicts
C2_MissingTagsWitness ==
    /\ pc = "done"
    /\ MissingTagUsed
    /\ ~InheritedTagUsed
    /\ SumOfCounts(EmployeeOutcomes) > 0
    /\ SumOfCounts(ShiftOutcomes) > 0
    /\ SumOfCounts(SystemOutcomes) > 0

\* C3: validate run twice in a row on the same inputs and the same grid ends the same
\* way both times, with the same totalConflicts and the same findings on the grid; and
\* at every point of a run the grid holds only what this run has reported so far, so
\* nothing of an earlier run survives unless it is reported again.
C3_ValidateIdempotent ==
    /\ Len(runs) = 2 => runs[1] = runs[2]
    /\ pc # "idle" => grid = highlightAll(EmptyGrid, ReportsOf(events))

\* the second run has ended, and the first one left findings on the grid
C3_Witness ==
    /\ Len(runs) = 2
    /\ runs[1].how = "returned"
    /\ \E d \in MonthDays : runs[1].grid[d].tooltip # <<>>
    /\ ~JsIsZero(runs[2].result.totalConflicts)

\* C4: within one validate call clear happens exactly once and before any report;
\* the reports of employee rules precede those of shift rules, which precede those
\* of system rules; the end-of-run signal is raised exactly once, after the last
\* report, and carries the final totalConflicts (the success signal iff it is 0).
PhaseRank(phase) ==
    CASE phase = "start" -> 0
      [] phase = "employee" -> 1
      [] phase = "shift" -> 2
      [] phase = "system" -> 3
      [] phase = "end" -> 4

EventsOrdered(evs) ==
    /\ Len(evs) >= 1
    /\ evs[1].op = "clear"
    /\ \A i \in 2..Len(evs) : evs[i].op # "clear"
    /\ \A i, j \in 1..Len(evs) : i < j => PhaseRank(evs[i].phase) <= PhaseRank(evs[j].phase)

EndSignalRaised(evs, total) ==
    /\ Cardinality({i \in 1..Len(evs) : evs[i].op = "alert"}) = 1
    /\ evs[Len(evs)].op = "alert"
    /\ evs[Len(evs)].reason =
           IF JsIsZero(total) THEN <<"no conflicts found">>
           ELSE <<"found ">> \o JsToStr(total) \o <<" conflicts">>

C4_SinkEventsOrdered ==
    /\ pc # "idle" => EventsOrdered(events)
    /\ RunEnded => EndSignalRaised(events, totalConflicts)

\* C4, for the runs that return: the order of the sink events is as C4 says.
C4_SinkEventsOrderedWhenReturned ==
    /\ pc # "idle" => EventsOrdered(events)
    /\ pc = "done" => EndSignalRaised(events, result.totalConflicts)
    /\ pc \notin {"idle", "done"} =>
           \A i \in 1..Len(events) : events[i].op # "alert"

-----------------------------------------------------------------------------
(* Direct calls of one rule handler: the rule is in `call`, the schedule and *)
(* the holiday map are the inputs, the handler's outcome goes to `ret` and   *)
(* its highlightConflict calls to the grid.                                  *)

NotCalled == [done |-> FALSE, out |-> Outcome(0, <<>>)]

HandlerInit(rule) ==
    /\ employeeAvailability = NoMap
    /\ employeeRules = NoMap
    /\ shiftRules = NoMap
    /\ EngineIdle
    /\ call = rule
    /\ ret = NotCalled

HandlerCall(outcome) ==
    /\ ~ret.done
    /\ ret' = [done |-> TRUE, out |-> outcome]
    /\ grid' = highlightAll(grid, outcome.reports)
    /\ UNCHANGED <<Inputs, call, pc, idx, totalConflicts, events, result, runs>>

\* the schedules that hold one of `lists` on each of `days` and nothing elsewhere
SchedulesOver(days, lists) ==
    {[d \in AllDays |-> IF d \in days THEN s[d] ELSE <<>>] : s \in [days -> lists]}

\* the holiday maps that flag any of `days`
HolidaysOver(days) ==
    {Present([d \in AllDays |-> d \in flagged]) : flagged \in SUBSET days}

\* the date d of each report, in order
ReportDates(reports) == [i \in 1..Len(reports) |-> reports[i].date]

\* the reports Each(d) of the days from..to, in the order of the days
ForEachDay(from, to, Each(_)) ==
    LET rest[d \in from..(to + 1)] == IF d > to THEN <<>> ELSE Each(d) \o rest[d + 1]
    IN rest[from]

\* the employee has a working (non-off) assignment on day d
Works(employee, d) ==
    \E i \in 1..Len(ShiftsOn(scheduleData, d)) :
        /\ ShiftsOn(scheduleData, d)[i].employee = employee
        /\ ShiftsOn(scheduleData, d)[i].shift # "off"

\* the employee holds a shift of kind k on day d
Holds(employee, d, k) ==
    \E i \in 1..Len(ShiftsOn(scheduleData, d)) :
        ShiftsOn(scheduleData, d)[i] = Shift(employee, k)

-----------------------------------------------------------------------------
(* checkMaxConsecutiveWorkDays *)

ConsecutiveDayLists ==
    {<<>>,
     <<Shift("A", "off"), Shift("B", "day")>>,
     <<Shift("B", "off"), Shift("A", "evening")>>}

InitMaxConsecutive ==
    /\ scheduleData \in SchedulesOver((1 - MaxThreshold)..DaysInMonth, ConsecutiveDayLists)
    /\ holidayDates = NoMap
    /\ \E n \in 0..MaxThreshold :
           HandlerInit(Rule("maxConsecutiveWorkDays", "A", "none", JsNumber(n)))

RunMaxConsecutive == HandlerCall(checkMaxConsecutiveWorkDays(Context(call)))

SpecMaxConsecutive == InitMaxConsecutive /\ [][RunMaxConsecutive]_vars

\* day d ends a run of more than n working days of the employee
StreakExceeds(employee, n, d) == \A k \in (d - n)..d : Works(employee, k)

\* C5: with threshold N for employee e, a conflict is counted and reported on day d
\* exactly when d lies in the target month and e works on every one of the N+1 days
\* d-N .. d, days before the month included; none is counted outside the month.
\* N = 3 with work on days 1-4 only gives exactly one conflict, on day 4.
C5_ConsecutiveConflictDays ==
    ret.done =>
        LET n == call.value.n
            days == {d \in AllDays : d \in MonthDays /\ StreakExceeds("A", n, d)}
        IN /\ ret.out.count = Cardinality(days)
           /\ Len(ret.out.reports) = Cardinality(days)
           /\ \A d \in AllDays :
                  d \in days <=> \E i \in 1..Len(ret.out.reports) :
                                     ret.out.reports[i].date = d
           /\ \A i \in 1..Len(ret.out.reports) :
                  LET d == ret.out.reports[i].date
                  IN \E streak \in (n + 1)..(d + MaxThreshold) :
                         /\ \A k \in (d - streak + 1)..d : Works("A", k)
                         /\ ~Works("A", d - streak) \/ d - streak < 1 - n
                         /\ ret.out.reports[i].reason = ConsecutiveReason("A", streak, n)
           /\ (n = 3 /\ {d \in AllDays : Works("A", d)} = 1..4) =>
                  /\ ret.out.count = 1
                  /\ ReportDates(ret.out.reports) = <<4>>

\* N = 3 and work on days 1-4 only: one conflict, on day 4
C5_Witness ==
    /\ ret.done
    /\ call.value.n = 3
    /\ {d \in AllDays : Works("A", d)} = 1..4
    /\ ret.out.count = 1
    /\ grid[4].conflict

\* a streak that began in the previous month is caught on day 1
C5_WitnessPriorMonth ==
    /\ ret.done
    /\ call.value.n = 2
    /\ {d \in AllDays : Works("A", d)} = (-1)..1
    /\ ReportDates(ret.out.reports) = <<1>>

-----------------------------------------------------------------------------
(* checkNo24HourShift *)

No24DayLists ==
    {<<>>,
     <<Shift("A", "night"), Shift("A", "day")>>,
     <<Shift("A", "weekend-night"), Shift("A", "weekend-day")>>,
     <<Shift("A", "weekend-night"), Shift("A", "day")>>,
     <<Shift("B", "night"), Shift("B", "day"), Shift("A", "off")>>}

InitNo24Hour ==
    /\ scheduleData \in SchedulesOver(0..DaysInMonth, No24DayLists)
    /\ holidayDates \in HolidaysOver(0..DaysInMonth)
    /\ HandlerInit(Rule("no24HourShift", "A", "none", JsUndefined))

RunNo24Hour == HandlerCall(checkNo24HourShift(Context(call)))

SpecNo24Hour == InitNo24Hour /\ [][RunNo24Hour]_vars

Flagged(d) == holidayDates.present /\ holidayDates.it[d]

\* the employee holds the night-class shift of day d - 1 and the day-class shift of
\* day d, each class named by the holiday flag of its own day
NightThenDay(employee, d) ==
    /\ Holds(employee, d - 1, IF Flagged(d - 1) THEN "weekend-night" ELSE "night")
    /\ Holds(employee, d, IF Flagged(d) THEN "weekend-day" ELSE "day")

No24Findings(d) ==
    IF NightThenDay("A", d)
    THEN <<Report(d, No24Reason("A", d - 1, d)), Report(d - 1, No24PrevReason("A"))>>
    ELSE <<>>

-----------------------------------------------------------------------------
(* checkNoDirectShiftTransition *)

TransitionDayLists ==
    {<<Shift("A", "day")>>,
     <<Shift("A", "weekend-day")>>,
     <<Shift("A", "off"), Shift("A", "evening"), Shift("A", "night")>>,
     <<Shift("B", "evening"), Shift("A", "night"), Shift("A", "day")>>,
     <<Shift("B", "day"), Shift("A", "off")>>}

InitNoDirectTransition ==
    /\ scheduleData \in SchedulesOver(1..(DaysInMonth + 1), TransitionDayLists)
    /\ holidayDates \in HolidaysOver(1..(DaysInMonth + 1))
    /\ HandlerInit(Rule("noDirectShiftTransition", "A", "none", JsUndefined))

RunNoDirectTransition == HandlerCall(checkNoDirectShiftTransition(Context(call)))

SpecNoDirectTransition == InitNoDirectTransition /\ [][RunNoDirectTransition]_vars

\* the shift of the employee's first working assignment of day d, NoShift without one
FirstWorking(employee, d) ==
    LET shifts == ShiftsOn(scheduleData, d)
    IN IF Works(employee, d)
       THEN shifts[CHOOSE i \in 1..Len(shifts) :
                       /\ shifts[i].employee = employee /\ shifts[i].shift # "off"
                       /\ \A j \in 1..(i - 1) :
                              shifts[j].employee # employee \/ shifts[j].shift = "off"].shift
       ELSE NoShift

\* the employee works on d and d + 1 and the gap between the first working
\* assignments of the two days is insufficient under each day's own holiday flag
GapTooShort(employee, d) ==
    /\ Works(employee, d)
    /\ Works(employee, d + 1)
    /\ ~hasEnoughShiftGap(FirstWorking(employee, d), FirstWorking(employee, d + 1),
                          Flagged(d), Flagged(d + 1))

GapFindings(d) ==
    IF GapTooShort("A", d)
    THEN LET reason == GapReason("A", FirstWorking("A", d), FirstWorking("A", d + 1))
         IN <<Report(d, reason), Report(d + 1, reason)>>
    ELSE <<>>

\* C7, with the gap as hasEnoughShiftGap decides it: for each day d of the month (the
\* last day is compared with day 1 of the next month) exactly one conflict is counted
\* iff the employee works on d and d+1 and hasEnoughShiftGap finds the gap between the
\* first working assignment of each day insufficient under each day's own holiday
\* flag; the same reason is then reported on d and on d+1.  day then evening on two
\* non-holidays gives a conflict on both dates; day then night gives none.
C7_GapConflictsAsDecided ==
    ret.done =>
        /\ ret.out.count = Cardinality({d \in MonthDays : GapTooShort("A", d)})
        /\ ret.out.reports = ForEachDay(1, DaysInMonth, GapFindings)
        /\ \A d \in MonthDays :
               (~Flagged(d) /\ ~Flagged(d + 1) /\ FirstWorking("A", d) = "day") =>
                   /\ FirstWorking("A", d + 1) = "evening" =>
                          \E i \in 1..(Len(ret.out.reports) - 1) :
                              /\ ret.out.reports[i] =
                                     Report(d, GapReason("A", "day", "evening"))
                              /\ ret.out.reports[i + 1] =
                                     Report(d + 1, GapReason("A", "day", "evening"))
                   /\ FirstWorking("A", d + 1) = "night" =>
                          \A i \in 1..Len(ret.out.reports) :
                              ret.out.reports[i].reason # GapReason("A", "day", "night")

AdjacentPairs == {<<"day", "evening">>, <<"evening", "night">>, <<"night", "day">>}
WeekdayShifts == {"day", "evening", "night"}

\* the employee works on d and d + 1, neither day is a holiday and the first working
\* assignments of the two days are one of the three adjacent pairs
AdjacentShifts(employee, d) ==
    /\ Works(employee, d)
    /\ Works(employee, d + 1)
    /\ ~Flagged(d)
    /\ ~Flagged(d + 1)
    /\ <<FirstWorking(employee, d), FirstWorking(employee, d + 1)>> \in AdjacentPairs

AdjacentFindings(d) ==
    IF AdjacentShifts("A", d)
    THEN LET reason == GapReason("A", FirstWorking("A", d), FirstWorking("A", d + 1))
         IN <<Report(d, reason), Report(d + 1, reason)>>
    ELSE <<>>

\* C7: for each day d of the month (the last day is compared with day 1 of the next
\* month) exactly one conflict is counted iff the employee works on d and d+1 and the
\* gap between the first working assignment of each day is insufficient under each
\* day's own holiday flag, that is, both days are non-holidays and the two shifts are
\* day->evening, evening->night or night->day; the same reason is then reported on d
\* and on d+1.
C7_GapConflicts ==
    ret.done =>
        /\ ret.out.count = Cardinality({d \in MonthDays : AdjacentShifts("A", d)})
        /\ ret.out.reports = ForEachDay(1, DaysInMonth, AdjacentFindings)

\* day then day on two non-holidays of the month: a conflict reported on both dates
C7_EqualShiftsWitness ==
    /\ ret.done
    /\ ~Flagged(1) /\ ~Flagged(2)
    /\ FirstWorking("A", 1) = "day"
    /\ FirstWorking("A", 2) = "day"
    /\ \E i \in 1..(Len(ret.out.reports) - 1) :
           /\ ret.out.reports[i] = Report(1, GapReason("A", "day", "day"))
           /\ ret.out.reports[i + 1] = Report(2, GapReason("A", "day", "day"))

\* day on the last day of the month, evening on day 1 of the next, no holiday: a
\* conflict reported on both dates
C7_Witness ==
    /\ ret.done
    /\ ~Flagged(DaysInMonth) /\ ~Flagged(DaysInMonth + 1)
    /\ FirstWorking("A", DaysInMonth) = "day"
    /\ FirstWorking("A", DaysInMonth + 1) = "evening"
    /\ ret.out.count >= 1
    /\ grid[DaysInMonth].conflict
    /\ \E i \in 1..Len(ret.out.reports) : ret.out.reports[i].date = DaysInMonth + 1

-----------------------------------------------------------------------------
(* hasEnoughShiftGap *)

GapShifts == ShiftKinds \cup {"on-call"}

InitShiftGap ==
    /\ scheduleData = [d \in AllDays |-> <<>>]
    /\ holidayDates = NoMap
    /\ employeeAvailability = NoMap
    /\ employeeRules = NoMap
    /\ shiftRules = NoMap
    /\ EngineIdle
    /\ call \in [shift1 : GapShifts, shift2 : GapShifts,
                 isHoliday1 : BOOLEAN, isHoliday2 : BOOLEAN]
    /\ ret = [done |-> FALSE, enough |-> FALSE]

RunShiftGap ==
    /\ ~ret.done
    /\ ret' = [done |-> TRUE,
               enough |-> hasEnoughShiftGap(call.shift1, call.shift2,
                                            call.isHoliday1, call.isHoliday2)]
    /\ UNCHANGED <<Inputs, call, grid, pc, idx, totalConflicts, events, result, runs>>

SpecShiftGap == InitShiftGap /\ [][RunShiftGap]_vars

\* C8: on two consecutive non-holiday days the gap from shift A to shift B is
\* insufficient for exactly the pairs day->evening, evening->night and night->day, and
\* sufficient for every other pair (off, unknown kinds and two equal shifts included);
\* when the two days differ in holiday-ness or both are holidays it is sufficient.
C8_OnlyAdjacentPairsInsufficient ==
    ret.done =>
        ret.enough <=>
            ~(/\ ~call.isHoliday1
              /\ ~call.isHoliday2
              /\ <<call.shift1, call.shift2>> \in AdjacentPairs)

\* C8, as the code decides it: on two non-holiday days the gap is insufficient for the
\* three adjacent pairs and also for two equal weekday shifts (0 steps apart), and
\* sufficient in every other case.
C8_AdjacentOrEqualInsufficient ==
    ret.done =>
        ret.enough <=>
            ~(/\ ~call.isHoliday1
              /\ ~call.isHoliday2
              /\ \/ <<call.shift1, call.shift2>> \in AdjacentPairs
                 \/ call.shift1 = call.shift2 /\ call.shift1 \in WeekdayShifts)

\* day then day on two non-holiday days is found insufficient
C8_EqualShiftsWitness ==
    /\ ret.done
    /\ call = [shift1 |-> "day", shift2 |-> "day", isHoliday1 |-> FALSE, isHoliday2 |-> FALSE]
    /\ ~ret.enough

-----------------------------------------------------------------------------
(* checkMinStaff *)

MinStaffDayLists ==
    {<<>>,
     <<Shift("A", "day")>>,
     <<Shift("A", "day"), Shift("B", "weekend-day"), Shift("B", "day")>>,
     <<Shift("A", "weekend-day"), Shift("B", "night"), Shift("A", "off")>>}

MinStaffHolidays ==
    {NoMap, Present([d \in AllDays |-> TRUE]), Present([d \in AllDays |-> d = 1])}

InitMinStaff ==
    /\ scheduleData \in SchedulesOver(MonthDays, MinStaffDayLists)
    /\ holidayDates \in MinStaffHolidays
    /\ \E k \in {"day", "weekend-day", "night"}, n \in 0..MaxStaff :
           HandlerInit(Rule("minStaff", "none", k, JsNumber(n)))

RunMinStaff == HandlerCall(checkMinStaff(Context(call)))

SpecMinStaff == InitMinStaff /\ [][RunMinStaff]_vars

\* how many assignments of day d have exactly the shift kind k
ExactKind(d, k) ==
    Cardinality({i \in 1..Len(ShiftsOn(scheduleData, d)) :
                     ShiftsOn(scheduleData, d)[i].shift = k})

MinStaffFindings(d) ==
    IF ExactKind(d, call.shift) < call.value.n
    THEN <<Report(d, <<shiftTypes[call.shift], " short of staff (now: ">>
                         \o IntToStr(ExactKind(d, call.shift))
                         \o <<", needed: ">> \o IntToStr(call.value.n) \o <<")">>)>>
    ELSE <<>>

\* C9: for a minStaff rule with shift kind k and threshold N the conflict count is the
\* number of days of the month, holiday or not, on which fewer than N assignments
\* have exactly the kind k, and each such day gets one finding that states the day's
\* count and N; assignments of another kind (weekend-day for day) never count.
C9_MinStaffConflicts ==
    ret.done =>
        /\ ret.out.count =
               Cardinality({d \in MonthDays : ExactKind(d, call.shift) < call.value.n})
        /\ ret.out.reports = ForEachDay(1, DaysInMonth, MinStaffFindings)

\* a holiday with one day assignment and a weekend-day one, at least 2 day shifts
\* required: the rule reports that day, with a count of 1
C9_Witness ==
    /\ ret.done
    /\ call.shift = "day"
    /\ call.value.n = 2
    /\ Flagged(2)
    /\ ExactKind(1, "day") = 2
    /\ scheduleData[2] = <<Shift("A", "day")>>
    /\ \E i \in 1..Len(ret.out.reports) :
           ret.out.reports[i] =
               Report(2, <<"Day shift", " short of staff (now: ", "1", ", needed: ", "2", ")">>)
    /\ \A i \in 1..Len(ret.out.reports) : ret.out.reports[i].date # 1

-----------------------------------------------------------------------------
(* checkShiftBalance *)

BalanceDayLists ==
    {<<>>,
     <<Shift("A", "day")>>,
     <<Shift("A", "night"), Shift("B", "day")>>,
     <<Shift("A", "weekend-day"), Shift("A", "day")>>,
     <<Shift("A", "weekend-night")>>,
     <<Shift("A", "evening"), Shift("A", "off")>>}

InitShiftBalance ==
    /\ scheduleData \in SchedulesOver(MonthDays, BalanceDayLists)
    /\ holidayDates = NoMap
    /\ \E n \in 0..MaxThreshold :
           HandlerInit(Rule("balanceShifts", "A", "none", JsNumber(n)))

RunShiftBalance == HandlerCall(checkShiftBalance(Context(call)))

SpecShiftBalance == InitShiftBalance /\ [][RunShiftBalance]_vars

\* how many assignments of the month give the employee a shift of `kinds`
MonthCount(employee, kinds) ==
    Cardinality({<<d, i>> \in MonthDays \X (1..3) :
                     /\ i <= Len(scheduleData[d])
                     /\ scheduleData[d][i].employee = employee
                     /\ scheduleData[d][i].shift \in kinds})

\* the latest day of the month on which the employee holds a shift of `kinds`
LatestDay(employee, kinds) ==
    CHOOSE d \in MonthDays :
        /\ \E k \in kinds : Holds(employee, d, k)
        /\ \A later \in (d + 1)..DaysInMonth : \A k \in kinds : ~Holds(employee, later, k)

\* the rule counts 1 conflict iff the counts differ by more than maxDifference, and then
\* reports one finding, on the latest date of the class with the larger count
BalanceVerdict(maxDifference) ==
    LET dayCount == MonthCount("A", DayClass)
        nightCount == MonthCount("A", NightClass)
    IN IF Abs(dayCount - nightCount) > maxDifference
       THEN /\ ret.out.count = 1
            /\ ReportDates(ret.out.reports) =
                   <<LatestDay("A", IF dayCount > nightCount THEN DayClass ELSE NightClass)>>
       ELSE /\ ret.out.count = 0
            /\ ret.out.reports = <<>>

\* C10: with max difference D the rule returns exactly 1 conflict if
\* |dayCount - nightCount| > D and 0 otherwise, never more, and when it returns 1 it
\* reports exactly one finding, on the latest date of the month on which the employee
\* holds a shift of the class with the larger count.
C10_BalanceConflict == ret.done => BalanceVerdict(call.value.n)

\* C10, as the code decides it: a configured difference of 0 is replaced by the
\* default of 2; for every other D the rule is as C10 says.
C10_BalanceConflictZeroDefaulted ==
    ret.done =>
        BalanceVerdict(IF call.value.n = 0 THEN DefaultMaxDifference ELSE call.value.n)

\* only day-class shifts, more than D = 2 of them: one conflict, on the latest of them
C10_ImbalanceWitness ==
    /\ ret.done
    /\ call.value.n = 2
    /\ MonthCount("A", DayClass) > 2
    /\ MonthCount("A", NightClass) = 0
    /\ ret.out.count = 1
    /\ ReportDates(ret.out.reports) = <<LatestDay("A", DayClass)>>
    /\ LatestDay("A", DayClass) < DaysInMonth

-----------------------------------------------------------------------------
(* checkEmployeeAvailability *)

AvailabilityDayLists ==
    {<<>>,
     <<Shift("A", "day")>>,
     <<Shift("A", "off"), Shift("B", "night")>>,
     <<Shift("A", "day"), Shift("A", "evening"), Shift("B", "day")>>}

\* one employee's availability entry: some dates of the month marked true or false
AvailabilityEntries == UNION {[dates -> BOOLEAN] : dates \in {{}, {2}, {1, 2}}}

\* params.employeeAvailability: missing, or entries for some of the employees
AvailabilityMaps ==
    {NoMap} \cup
    {Present(m) : m \in UNION {[some -> AvailabilityEntries] : some \in SUBSET Employees}}

InitAvailability ==
    /\ scheduleData \in SchedulesOver(MonthDays, AvailabilityDayLists)
    /\ holidayDates = NoMap
    /\ employeeAvailability \in AvailabilityMaps
    /\ employeeRules = NoMap
    /\ shiftRules = NoMap
    /\ EngineIdle
    /\ call = NoRule
    /\ ret = NotCalled

RunAvailability == HandlerCall(checkEmployeeAvailability(Context(call)))

SpecAvailability == InitAvailability /\ [][RunAvailability]_vars

\* the availability map has an entry for the employee and that entry marks day d false
EntryIsFalse(employee, d) ==
    /\ employeeAvailability.present
    /\ employee \in DOMAIN employeeAvailability.it
    /\ d \in DOMAIN employeeAvailability.it[employee]
    /\ ~employeeAvailability.it[employee][d]

\* the assignments of day d that are not off and whose employee is marked false on d
UnavailableAssignments(d) ==
    SelectSeq(scheduleData[d], LAMBDA s : s.shift # "off" /\ EntryIsFalse(s.employee, d))

AvailabilityFindings(d) ==
    [i \in 1..Len(UnavailableAssignments(d)) |->
        Report(d, <<UnavailableAssignments(d)[i].employee, " is set unavailable on this day">>)]

\* C11: the availability rule counts one conflict for each non-off assignment on a day
\* of the month whose employee's availability entry for that day is exactly false; no
\* entry for the employee, no entry for the day, an entry of true or an off assignment
\* gives none; with a missing availability map the rule returns 0 and reports nothing.
C11_AvailabilityConflicts ==
    ret.done =>
        /\ ret.out.reports = ForEachDay(1, DaysInMonth, AvailabilityFindings)
        /\ ret.out.count = Len(ret.out.reports)
        /\ ~employeeAvailability.present =>
               /\ ret.out.count = 0
               /\ ret.out.reports = <<>>
               /\ grid = EmptyGrid

\* A is marked false on days 1 and 2 and B has no entry: A's two working shifts of day 1
\* are counted, B's shifts and A's off entry of day 2 are not
C11_Witness ==
    /\ ret.done
    /\ employeeAvailability = Present([e \in {"A"} |-> [d \in {1, 2} |-> FALSE]])
    /\ scheduleData[1] = <<Shift("A", "day"), Shift("A", "evening"), Shift("B", "day")>>
    /\ scheduleData[2] = <<Shift("A", "off"), Shift("B", "night")>>
    /\ ret.out.count = 2
    /\ ReportDates(ret.out.reports) = <<1, 1>>
    /\ grid[1].conflict
    /\ ~grid[2].conflict

-----------------------------------------------------------------------------
(* checkDuplicateAssignment *)

DuplicateDayLists ==
    {<<>>,
     <<Shift("A", "day"), Shift("A", "off"), Shift("A", "off")>>,
     <<Shift("A", "day"), Shift("B", "night"), Shift("A", "evening")>>,
     <<Shift("B", "off"), Shift("B", "day"), Shift("A", "night"), Shift("B", "evening"),
       Shift("A", "day"), Shift("B", "night")>>}

InitDuplicate ==
    /\ scheduleData \in SchedulesOver(MonthDays, DuplicateDayLists)
    /\ holidayDates \in {NoMap, Present([d \in AllDays |-> d = 2])}
    /\ employeeAvailability \in {NoMap, Present([e \in {"A"} |-> [d \in {1, 2} |-> FALSE]])}
    /\ employeeRules = NoMap
    /\ shiftRules = NoMap
    /\ EngineIdle
    /\ call = NoRule
    /\ ret = NotCalled

RunDuplicate == HandlerCall(checkDuplicateAssignment(Context(call)))

SpecDuplicate == InitDuplicate /\ [][RunDuplicate]_vars

\* the shift kinds of the employee's non-off assignments of day d, in schedule order
WorkingKinds(employee, d) ==
    LET mine == SelectSeq(scheduleData[d],
                          LAMBDA s : s.employee = employee /\ s.shift # "off")
    IN [i \in 1..Len(mine) |-> mine[i].shift]

\* the employees with two or more non-off assignments on day d
DoubleBooked(d) == {e \in Employees : Len(WorkingKinds(e, d)) >= 2}

DuplicateFindings ==
    {Report(d, <<e, " has several shifts on one day: ">> \o Join(WorkingKinds(e, d))) :
        <<d, e>> \in {p \in MonthDays \X Employees : p[2] \in DoubleBooked(p[1])}}

-----------------------------------------------------------------------------
(* The selection functions.  getBestEmployeeSelection, getUnderScheduledEmployees  *)
(* and the two-phase selectEmployeesWithFairness are those of the revision in      *)
(* src/unnamed/part_000; selectEmployeesWithFairnessV22 is the single function of  *)
(* src/scheduling_rules.js (v2.2), which has the same name in the source.          *)

\* Array.prototype.sort with a comparator: stable, x goes behind every element that
\* does not compare greater than it
InsertSorted(s, x, Compare(_, _)) ==
    LET p == Cardinality({i \in 1..Len(s) : Compare(s[i], x) <= 0})
    IN SubSeq(s, 1, p) \o <<x>> \o SubSeq(s, p + 1, Len(s))

StableSort(list, Compare(_, _)) ==
    LET sorted[k \in 0..Len(list)] ==
            IF k = 0 THEN <<>> ELSE InsertSorted(sorted[k - 1], list[k], Compare)
    IN sorted[Len(list)]

\* a slice that takes one element too many
SliceOneMore(list, n) == SubSeq(list, 1, IF n + 1 < Len(list) THEN n + 1 ELSE Len(list))

\* array.slice(0, n)
Slice(list, n) == SubSeq(list, 1, IF n < Len(list) THEN n ELSE Len(list))

\* array.includes(x)
Contains(list, x) == \E i \in 1..Len(list) : list[i] = x

\* the code-unit order of the employee names
NameRank == ("A" :> 1) @@ ("B" :> 2) @@ ("C" :> 3)

\* a.localeCompare(b), and the comparison of the default sort()
localeCompare(a, b) == NameRank[a] - NameRank[b]

NoStats == [present |-> FALSE, totalShifts |-> 0, dayShifts |-> 0, nightShifts |-> 0]
Stats(total, day, night) ==
    [present |-> TRUE, totalShifts |-> total, dayShifts |-> day, nightShifts |-> night]

\* employeeStats[a] || { totalShifts: 0, dayShifts: 0, nightShifts: 0 }
StatOf(employeeStats, a) ==
    IF a \in DOMAIN employeeStats /\ employeeStats[a].present
    THEN employeeStats[a] ELSE NoStats

\* the comparator of case 'balanced'
balancedCompare(a, b, shiftType, employeeStats) ==
    LET statA == StatOf(employeeStats, a)
        statB == StatOf(employeeStats, b)
    IN IF statA.totalShifts # statB.totalShifts
       THEN statA.totalShifts - statB.totalShifts
       ELSE IF shiftType = "day"
       THEN (statB.nightShifts - statB.dayShifts) - (statA.nightShifts - statA.dayShifts)
       ELSE IF shiftType = "night"
       THEN (statB.dayShifts - statB.nightShifts) - (statA.dayShifts - statA.nightShifts)
       ELSE localeCompare(a, b)

\* the comparators of case 'minimize_night'
minimizeNightCompare(a, b, shiftType, employeeStats) ==
    LET statA == StatOf(employeeStats, a)
        statB == StatOf(employeeStats, b)
    IN IF shiftType = "night"
       THEN IF statA.nightShifts # statB.nightShifts
            THEN statA.nightShifts - statB.nightShifts
            ELSE statA.totalShifts - statB.totalShifts
       ELSE IF statA.dayShifts # statB.dayShifts
            THEN statA.dayShifts - statB.dayShifts
            ELSE statA.totalShifts - statB.totalShifts

\* a comparator that sorts by descending totalShifts
totalShiftsDescending(a, b, employeeStats) ==
    StatOf(employeeStats, b).totalShifts - StatOf(employeeStats, a).totalShifts

\* the comparator of the default case
totalShiftsCompare(a, b, employeeStats) ==
    StatOf(employeeStats, a).totalShifts - StatOf(employeeStats, b).totalShifts

\* the date argument: null, or the text of day `day` of the month
NoDate == 0

\* the host's time zone: at UTC or east of it, or west of it
TimeZones == {"east", "west"}

\* new Date(date).getDate() for a date text 'YYYY-MM-DD': the text is read as midnight
\* UTC and getDate answers in local time, which west of UTC is still the day before
getDate(date, tz) ==
    IF tz = "west" THEN (IF date = 1 THEN DaysInMonth ELSE date - 1) ELSE date

\* case 'rotate': sort(), then the rotation by the day of the month
rotate(sortedEmployees, date, tz) ==
    IF date # NoDate
    THEN LET rotationOffset == getDate(date, tz) % Len(sortedEmployees)
         IN SubSeq(sortedEmployees, rotationOffset + 1, Len(sortedEmployees))
                \o SubSeq(sortedEmployees, 1, rotationOffset)
    ELSE sortedEmployees

getBestEmployeeSelection(availableEmployees, shiftType, requiredCount, employeeStats, strategy, date, tz) ==
    IF Len(availableEmployees) <= requiredCount THEN availableEmployees
    ELSE LET sortedEmployees ==
                 CASE strategy = "balanced" ->
                          StableSort(availableEmployees,
                              LAMBDA a, b : balancedCompare(a, b, shiftType, employeeStats))
                   [] strategy = "minimize_night" ->
                          StableSort(availableEmployees,
                              LAMBDA a, b : minimizeNightCompare(a, b, shiftType, employeeStats))
                   [] strategy = "rotate" ->
                          rotate(StableSort(availableEmployees, localeCompare), date, tz)
                   [] OTHER ->
                          StableSort(availableEmployees,
                              LAMBDA a, b : totalShiftsCompare(a, b, employeeStats))
         IN Slice(sortedEmployees, requiredCount)

\* Object.values(employeeStats).reduce((sum, stat) => sum + stat.totalShifts, 0)
SumOfTotalShifts(employeeStats) ==
    LET names == DOMAIN employeeStats
        sum[S \in SUBSET names] ==
            IF S = {} THEN 0
            ELSE LET e == CHOOSE x \in S : TRUE
                 IN StatOf(employeeStats, e).totalShifts + sum[S \ {e}]
    IN sum[names]

\* totalShifts / employees.length, kept as numerator and denominator: with an empty
\* roster the quotient is Infinity, or NaN when the sum is 0 too
averageShifts(employeeStats, employees) ==
    [num |-> SumOfTotalShifts(employeeStats), den |-> Len(employees)]

\* x < average: false against NaN, true against Infinity
LessThanAverage(x, average) ==
    IF average.den = 0 THEN average.num > 0 ELSE x * average.den < average.num

\* empStat.totalShifts < averageShifts
BelowAverage(employeeStats, employees, emp) ==
    LessThanAverage(StatOf(employeeStats, emp).totalShifts,
                    averageShifts(employeeStats, employees))

getUnderScheduledEmployees(employeeStats, employees) ==
    LET underScheduled ==
            SelectSeq(employees, LAMBDA emp : BelowAverage(employeeStats, employees, emp))
    IN StableSort(underScheduled, LAMBDA a, b : totalShiftsCompare(a, b, employeeStats))

\* a selection that takes the head of the pool as it stands
selectEmployeesUnranked(availableEmployees, shiftType, requiredCount, employeeStats, allEmployees, strategy, date, tz) ==
    Slice(availableEmployees, requiredCount)

selectEmployeesWithFairness(availableEmployees, shiftType, requiredCount, employeeStats, allEmployees, strategy, date, tz) ==
    IF Len(availableEmployees) <= requiredCount THEN availableEmployees
    ELSE LET underScheduled == getUnderScheduledEmployees(employeeStats, allEmployees)
             availableUnderScheduled ==
                 SelectSeq(availableEmployees, LAMBDA emp : Contains(underScheduled, emp))
             priorityCount ==
                 IF Len(availableUnderScheduled) < requiredCount
                 THEN Len(availableUnderScheduled) ELSE requiredCount
             prioritySelection ==
                 IF Len(availableUnderScheduled) > 0
                 THEN getBestEmployeeSelection(availableUnderScheduled, shiftType,
                          priorityCount, employeeStats, strategy, date, tz)
                 ELSE <<>>
             remainingAvailable ==
                 SelectSeq(availableEmployees, LAMBDA emp : ~Contains(prioritySelection, emp))
             remainingCount == requiredCount - Len(prioritySelection)
             remainingSelection ==
                 IF Len(prioritySelection) < requiredCount /\ Len(remainingAvailable) > 0
                 THEN getBestEmployeeSelection(remainingAvailable, shiftType,
                          remainingCount, employeeStats, strategy, date, tz)
                 ELSE <<>>
         IN prioritySelection \o remainingSelection

\* (employeeStats[a]?.nightShifts || 0) - ... || (employeeStats[a]?.totalShifts || 0) - ...
nightThenTotalCompare(a, b, employeeStats) ==
    IF StatOf(employeeStats, a).nightShifts # StatOf(employeeStats, b).nightShifts
    THEN StatOf(employeeStats, a).nightShifts - StatOf(employeeStats, b).nightShifts
    ELSE StatOf(employeeStats, a).totalShifts - StatOf(employeeStats, b).totalShifts

selectEmployeesWithFairnessV22(availableEmployees, shiftType, requiredCount, employeeStats, allEmployees, strategy, date, tz) ==
    IF Len(availableEmployees) <= requiredCount THEN availableEmployees
    ELSE LET sortedEmployees ==
                 CASE strategy = "balanced" ->
                          StableSort(availableEmployees,
                              LAMBDA a, b : totalShiftsCompare(a, b, employeeStats))
                   [] strategy = "minimize_night" ->
                          IF shiftType = "night" \/ shiftType = "weekend-night"
                          THEN StableSort(availableEmployees,
                                   LAMBDA a, b : nightThenTotalCompare(a, b, employeeStats))
                          ELSE StableSort(availableEmployees,
                                   LAMBDA a, b : totalShiftsCompare(a, b, employeeStats))
                   [] strategy = "rotate" ->
                          rotate(StableSort(availableEmployees, localeCompare), date, tz)
                   [] OTHER ->
                          StableSort(availableEmployees,
                              LAMBDA a, b : totalShiftsCompare(a, b, employeeStats))
         IN Slice(sortedEmployees, requiredCount)

-----------------------------------------------------------------------------
(* Calls of the selection functions: the arguments are in `call`, the function *)
(* called and the list it returns go to `ret`.                                 *)

MaxRequired == 2

Selectable == DOMAIN NameRank

\* the lists of distinct employees
Pools ==
    {p \in UNION {[1..n -> Selectable] : n \in 0..Cardinality(Selectable)} :
        \A i, j \in 1..Len(p) : i # j => p[i] # p[j]}

StatChoices == {NoStats, Stats(1, 1, 0), Stats(3, 1, 2), Stats(3, 3, 0), Stats(5, 1, 4)}

Rosters == {<<>>, <<"A", "B">>, <<"A", "B", "C">>}

\* strategy, shift kind, date and time zone of a call
Settings ==
    [strategy : {"balanced", "minimize_night"},
     shiftType : {"day", "night", "weekend-day", "weekend-night"},
     date : {NoDate}, tz : {"east"}]
    \cup [strategy : {"rotate"}, shiftType : {"day"}, date : {NoDate}, tz : {"east"}]
    \cup [strategy : {"rotate"}, shiftType : {"day"}, date : MonthDays, tz : TimeZones]
    \cup [strategy : {"fastest"}, shiftType : {"day"}, date : {NoDate}, tz : {"east"}]

NotSelected == [done |-> FALSE, by |-> "none", out |-> <<>>]

InitSelect ==
    /\ scheduleData = [d \in AllDays |-> <<>>]
    /\ holidayDates = NoMap
    /\ employeeAvailability = NoMap
    /\ employeeRules = NoMap
    /\ shiftRules = NoMap
    /\ EngineIdle
    /\ \E availableEmployees \in Pools, requiredCount \in 0..MaxRequired,
          employeeStats \in [Selectable -> StatChoices], allEmployees \in Rosters,
          setting \in Settings :
           call = [availableEmployees |-> availableEmployees,
                   shiftType |-> setting.shiftType,
                   requiredCount |-> requiredCount,
                   employeeStats |-> employeeStats,
                   allEmployees |-> allEmployees,
                   strategy |-> setting.strategy,
                   date |-> setting.date,
                   tz |-> setting.tz]
    /\ ret = NotSelected

Selected(by, out) ==
    /\ ~ret.done
    /\ ret' = [done |-> TRUE, by |-> by, out |-> out]
    /\ UNCHANGED <<Inputs, call, grid, pc, idx, totalConflicts, events, result, runs>>

RunSelect ==
    Selected("select",
        getBestEmployeeSelection(call.availableEmployees, call.shiftType,
            call.requiredCount, call.employeeStats, call.strategy, call.date, call.tz))

RunSelectWithFairness ==
    Selected("selectWithFairness",
        selectEmployeesWithFairness(call.availableEmployees, call.shiftType,
            call.requiredCount, call.employeeStats, call.allEmployees, call.strategy,
            call.date, call.tz))

RunSelectWithFairnessV22 ==
    Selected("selectWithFairness v2.2",
        selectEmployeesWithFairnessV22(call.availableEmployees, call.shiftType,
            call.requiredCount, call.employeeStats, call.allEmployees, call.strategy,
            call.date, call.tz))

NextSelect == RunSelect \/ RunSelectWithFairness \/ RunSelectWithFairnessV22

SpecSelect == InitSelect /\ [][NextSelect]_vars

Min(a, b) == IF a < b THEN a ELSE b

\* the employees of a list
Members(list) == {list[i] : i \in 1..Len(list)}

\* C13: for every pool of distinct available employees, every requiredCount >= 0, every
\* stats map, roster and strategy, select and selectWithFairness return exactly
\* min(pool size, requiredCount) employees, all of the pool, none repeated.
C13_SelectionSize ==
    ret.done =>
        /\ Len(ret.out) = Min(Len(call.availableEmployees), call.requiredCount)
        /\ Members(ret.out) \subseteq Members(call.availableEmployees)
        /\ Cardinality(Members(ret.out)) = Len(ret.out)

\* the two-phase selection takes one under-scheduled employee and one who is not
C13_Witness ==
    /\ ret.done
    /\ ret.by = "selectWithFairness"
    /\ Len(call.availableEmployees) = 3
    /\ call.requiredCount = 2
    /\ Len(getUnderScheduledEmployees(call.employeeStats, call.allEmployees)) = 1
    /\ Contains(getUnderScheduledEmployees(call.employeeStats, call.allEmployees), ret.out[1])
    /\ Len(ret.out) = 2
    /\ ret.out[2] # ret.out[1]

\* a pool smaller than the required count is returned whole
C13_WitnessSmallPool ==
    /\ ret.done
    /\ ret.by = "select"
    /\ Len(call.availableEmployees) = 1
    /\ call.requiredCount = 2
    /\ ret.out = call.availableEmployees


\* the order the strategy of the call gives to a pool
StrategyRanking(pool) ==
    CASE call.strategy = "balanced" ->
             StableSort(pool,
                 LAMBDA a, b : balancedCompare(a, b, call.shiftType, call.employeeStats))
      [] call.strategy = "minimize_night" ->
             StableSort(pool,
                 LAMBDA a, b : minimizeNightCompare(a, b, call.shiftType, call.employeeStats))
      [] call.strategy = "rotate" ->
             rotate(StableSort(pool, localeCompare), call.date, call.tz)
      [] OTHER ->
             StableSort(pool, LAMBDA a, b : totalShiftsCompare(a, b, call.employeeStats))

\* the sum of totalShifts over the members of the roster
RosterTotal ==
    LET roster == Members(call.allEmployees)
        sum[S \in SUBSET roster] ==
            IF S = {} THEN 0
            ELSE LET e == CHOOSE x \in S : TRUE
                 IN StatOf(call.employeeStats, e).totalShifts + sum[S \ {e}]
    IN sum[roster]

\* the roster members whose totalShifts is strictly below the mean over the roster
BelowRosterMean ==
    {e \in Members(call.allEmployees) :
        StatOf(call.employeeStats, e).totalShifts * Len(call.allEmployees) < RosterTotal}

\* the set that getUnderScheduledEmployees computes for the call
UnderScheduledAsComputed ==
    Members(getUnderScheduledEmployees(call.employeeStats, call.allEmployees))

\* in the result, the employees of `under` come first, and none outside `under` is
\* selected while an available one of `under` is left out
UnderScheduledFirst(under) ==
    /\ \A i, j \in 1..Len(ret.out) :
           (ret.out[i] \in under /\ ret.out[j] \notin under) => i < j
    /\ \A e \in Members(call.availableEmployees) :
           (e \in under /\ e \notin Members(ret.out)) => Members(ret.out) \subseteq under

\* the part of the list inside `under` (inside = TRUE) or outside it
Phase(list, under, inside) == SelectSeq(list, LAMBDA e : (e \in under) = inside)

\* each phase of the result is the head of the strategy's order of its sub-pool
PhasesInStrategyOrder(under) ==
    \A inside \in BOOLEAN :
        Phase(ret.out, under, inside) =
            Slice(StrategyRanking(Phase(call.availableEmployees, under, inside)),
                  Len(Phase(ret.out, under, inside)))

\* each phase of the result is what select returns for its sub-pool
PhasesAsSelected(under) ==
    \A inside \in BOOLEAN :
        Phase(ret.out, under, inside) =
            getBestEmployeeSelection(Phase(call.availableEmployees, under, inside),
                call.shiftType, Len(Phase(ret.out, under, inside)), call.employeeStats,
                call.strategy, call.date, call.tz)

WithFairness == {"selectWithFairness", "selectWithFairness v2.2"}

\* C14: selectWithFairness is two-phase for every strategy: when the pool is larger than
\* requiredCount, every selected employee who is not under-scheduled comes after all
\* selected under-scheduled ones, none who is not under-scheduled is selected while an
\* available under-scheduled employee is left out, and within each phase the order is
\* the one the strategy gives to that phase's sub-pool.
C14_TwoPhaseSelection ==
    (ret.done /\ ret.by \in WithFairness
              /\ Len(call.availableEmployees) > call.requiredCount) =>
        /\ UnderScheduledFirst(BelowRosterMean)
        /\ PhasesInStrategyOrder(BelowRosterMean)

\* C14, as the two-phase revision decides it: with the under-scheduled set that
\* getUnderScheduledEmployees computes, the under-scheduled come first and are preferred,
\* and each phase is what select returns for its sub-pool (a sub-pool no larger than
\* the phase's count is returned in pool order).
C14_TwoPhaseAsComputed ==
    (ret.done /\ ret.by = "selectWithFairness"
              /\ Len(call.availableEmployees) > call.requiredCount) =>
        /\ UnderScheduledFirst(UnderScheduledAsComputed)
        /\ PhasesAsSelected(UnderScheduledAsComputed)

\* roster A, B, C with B alone below the mean, strategy rotate without a date, one
\* employee required: the single-phase revision returns A, the first of the alphabet
C14_SinglePhaseWitness ==
    /\ ret.done
    /\ ret.by = "selectWithFairness v2.2"
    /\ call.availableEmployees = <<"A", "B", "C">>
    /\ call.allEmployees = <<"A", "B", "C">>
    /\ call.requiredCount = 1
    /\ call.strategy = "rotate"
    /\ call.date = NoDate
    /\ BelowRosterMean = {"B"}
    /\ UnderScheduledAsComputed = {"B"}
    /\ ret.out = <<"A">>

\* the two-phase revision on the same call returns B
C14_TwoPhaseWitness ==
    /\ ret.done
    /\ ret.by = "selectWithFairness"
    /\ call.availableEmployees = <<"A", "B", "C">>
    /\ call.allEmployees = <<"A", "B", "C">>
    /\ call.requiredCount = 1
    /\ call.strategy = "rotate"
    /\ call.date = NoDate
    /\ BelowRosterMean = {"B"}
    /\ ret.out = <<"B">>


\* totalShifts of the employee, 0 without a stats entry
TotalShifts(e) == StatOf(call.employeeStats, e).totalShifts

\* the strategy is balanced or one the selector does not know
BalancedOrUnknown == call.strategy \notin {"minimize_night", "rotate"}

\* C15: under strategy balanced, and under any unrecognized strategy, when the pool is
\* larger than requiredCount the result of select (and of the single-phase
\* selectWithFairness) is in non-decreasing order of totalShifts, missing stats counting
\* as 0, and no unselected available employee has strictly fewer totalShifts than a
\* selected one; with stats A=5, B=1, C=3 and requiredCount 2 the result is [B, C].
C15_BalancedByTotalShifts ==
    (ret.done /\ ret.by \in {"select", "selectWithFairness v2.2"} /\ BalancedOrUnknown
              /\ Len(call.availableEmployees) > call.requiredCount) =>
        /\ \A i, j \in 1..Len(ret.out) :
               i < j => TotalShifts(ret.out[i]) <= TotalShifts(ret.out[j])
        /\ \A e \in Members(call.availableEmployees) \ Members(ret.out) :
               \A i \in 1..Len(ret.out) : TotalShifts(e) >= TotalShifts(ret.out[i])
        /\ (/\ TotalShifts("A") = 5 /\ TotalShifts("B") = 1 /\ TotalShifts("C") = 3
            /\ Len(call.availableEmployees) = 3 /\ call.requiredCount = 2) =>
               ret.out = <<"B", "C">>

\* select, balanced, stats A=5, B=1, C=3, pool A, B, C, two required: [B, C]
C15_Witness ==
    /\ ret.done
    /\ ret.by = "select"
    /\ call.strategy = "balanced"
    /\ call.availableEmployees = <<"A", "B", "C">>
    /\ call.requiredCount = 2
    /\ TotalShifts("A") = 5 /\ TotalShifts("B") = 1 /\ TotalShifts("C") = 3
    /\ ret.out = <<"B", "C">>

\* an unrecognized strategy, one employee without stats: that employee is selected first
C15_WitnessUnknownStrategy ==
    /\ ret.done
    /\ ret.by = "selectWithFairness v2.2"
    /\ call.strategy = "fastest"
    /\ call.availableEmployees = <<"C", "B", "A">>
    /\ call.requiredCount = 1
    /\ ~call.employeeStats["A"].present
    /\ call.employeeStats["B"].present /\ call.employeeStats["C"].present
    /\ ret.out = <<"A">>


NightShifts(e) == StatOf(call.employeeStats, e).nightShifts
DayShifts(e) == StatOf(call.employeeStats, e).dayShifts

\* the list ascends in Key, and in totalShifts where Key ties
AscendingBy(list, Key(_)) ==
    \A i, j \in 1..Len(list) :
        i < j => \/ Key(list[i]) < Key(list[j])
                 \/ Key(list[i]) = Key(list[j])
                    /\ TotalShifts(list[i]) <= TotalShifts(list[j])

SelectsOnce == {"select", "selectWithFairness v2.2"}

\* C16: under strategy minimize_night, for a night-class slot (night or weekend-night)
\* the selected employees are ordered by ascending nightShifts, ties by ascending
\* totalShifts; for a day-class slot (day or weekend-day) by ascending dayShifts, ties by
\* ascending totalShifts.
C16_MinimizeNightOrder ==
    (ret.done /\ ret.by \in SelectsOnce /\ call.strategy = "minimize_night"
              /\ Len(call.availableEmployees) > call.requiredCount) =>
        /\ call.shiftType \in NightClass => AscendingBy(ret.out, NightShifts)
        /\ call.shiftType \in DayClass => AscendingBy(ret.out, DayShifts)

\* C16, as select of the earlier revision decides it: a night slot is ordered by
\* nightShifts then totalShifts, and every other slot, weekend-night included, by
\* dayShifts then totalShifts.
C16_MinimizeNightOrderOfSelect ==
    (ret.done /\ ret.by = "select" /\ call.strategy = "minimize_night"
              /\ Len(call.availableEmployees) > call.requiredCount) =>
        IF call.shiftType = "night" THEN AscendingBy(ret.out, NightShifts)
        ELSE AscendingBy(ret.out, DayShifts)

\* C16, as the later revision decides it: a night or weekend-night slot is ordered by
\* nightShifts then totalShifts, and a day-class slot by totalShifts alone.
C16_MinimizeNightOrderV22 ==
    (ret.done /\ ret.by = "selectWithFairness v2.2" /\ call.strategy = "minimize_night"
              /\ Len(call.availableEmployees) > call.requiredCount) =>
        IF call.shiftType \in NightClass THEN AscendingBy(ret.out, NightShifts)
        ELSE \A i, j \in 1..Len(ret.out) :
                 i < j => TotalShifts(ret.out[i]) <= TotalShifts(ret.out[j])

\* the later revision, a day slot: A with 3 day shifts of 3 comes before B with 1 day
\* shift of 5
C16_DaySlotWitness ==
    /\ ret.done
    /\ ret.by = "selectWithFairness v2.2"
    /\ call.strategy = "minimize_night"
    /\ call.shiftType = "day"
    /\ call.availableEmployees = <<"B", "A", "C">>
    /\ call.requiredCount = 2
    /\ call.employeeStats["A"] = Stats(3, 3, 0)
    /\ call.employeeStats["B"] = Stats(5, 1, 4)
    /\ call.employeeStats["C"] = Stats(5, 1, 4)
    /\ ret.out = <<"A", "B">>

\* select of the earlier revision, a weekend-night slot: B with 4 night shifts and 1
\* day shift comes before A with no night shift and 3 day shifts
C16_WeekendNightWitness ==
    /\ ret.done
    /\ ret.by = "select"
    /\ call.strategy = "minimize_night"
    /\ call.shiftType = "weekend-night"
    /\ call.availableEmployees = <<"A", "B", "C">>
    /\ call.requiredCount = 2
    /\ call.employeeStats["A"] = Stats(3, 3, 0)
    /\ call.employeeStats["B"] = Stats(5, 1, 4)
    /\ call.employeeStats["C"] = Stats(5, 1, 4)
    /\ ret.out = <<"B", "C">>


\* the pool in alphabetical order
Alphabetical(pool) ==
    CHOOSE s \in Pools :
        /\ Members(s) = Members(pool)
        /\ \A i, j \in 1..Len(s) : i < j => NameRank[s[i]] < NameRank[s[j]]

\* the list rotated left by k positions
RotatedLeft(list, k) ==
    SubSeq(list, (k % Len(list)) + 1, Len(list)) \o SubSeq(list, 1, k % Len(list))

\* the ranking that case 'rotate' computes for the pool of the call on day d
RotateRanking(d) == rotate(StableSort(call.availableEmployees, localeCompare), d, call.tz)

RotateCall ==
    /\ ret.done
    /\ ret.by \in SelectsOnce
    /\ call.strategy = "rotate"
    /\ call.date # NoDate
    /\ Len(call.availableEmployees) > call.requiredCount

\* C17: under strategy rotate with a date given and a pool larger than requiredCount,
\* the ranking is the alphabetically sorted pool rotated left by (day-of-month mod pool
\* size), so the ranking for day d+1 of the same month is the ranking for day d rotated
\* left by one; the result is the first requiredCount entries of that ranking and does
\* not depend on the stats.
C17_RotateByDayOfMonth ==
    RotateCall =>
        /\ RotateRanking(call.date) =
               RotatedLeft(Alphabetical(call.availableEmployees), call.date)
        /\ ret.out = Slice(RotatedLeft(Alphabetical(call.availableEmployees), call.date),
                           call.requiredCount)
        /\ (call.date + 1 \in MonthDays) =>
               RotateRanking(call.date + 1) = RotatedLeft(RotateRanking(call.date), 1)

\* C17, on a host at UTC or east of it: there the date text is read as its own day of
\* the month and the ranking is as claimed.
C17_RotateByDayOfMonthEastOfUTC ==
    (RotateCall /\ call.tz = "east") =>
        /\ ret.out = Slice(RotatedLeft(Alphabetical(call.availableEmployees), call.date),
                           call.requiredCount)
        /\ (call.date + 1 \in MonthDays) =>
               RotateRanking(call.date + 1) = RotatedLeft(RotateRanking(call.date), 1)

\* a host west of UTC, day 2, pool C, A, B, one required: the date is read as day 1 and
\* the result is B, where day 2 mod 3 gives C
C17_WestOfUTCWitness ==
    /\ ret.done
    /\ ret.by = "select"
    /\ call.strategy = "rotate"
    /\ call.date = 2
    /\ call.tz = "west"
    /\ call.availableEmployees = <<"C", "A", "B">>
    /\ call.requiredCount = 1
    /\ ret.out = <<"B">>

\* a host east of UTC, the same call: the result is C
C17_EastOfUTCWitness ==
    /\ ret.done
    /\ ret.by = "select"
    /\ call.strategy = "rotate"
    /\ call.date = 2
    /\ call.tz = "east"
    /\ call.availableEmployees = <<"C", "A", "B">>
    /\ call.requiredCount = 1
    /\ ret.out = <<"C">>


\* C18: when the roster passed to selectWithFairness is empty, the under-scheduled set is
\* empty, no error or NaN reaches the result, and the result is what the single-phase
\* select returns for the same pool, shift kind, requiredCount, stats, strategy and date.
C18_EmptyRosterSinglePhase ==
    (ret.done /\ ret.by = "selectWithFairness" /\ call.allEmployees = <<>>) =>
        /\ getUnderScheduledEmployees(call.employeeStats, call.allEmployees) = <<>>
        /\ Members(ret.out) \subseteq Selectable
        /\ ret.out = getBestEmployeeSelection(call.availableEmployees, call.shiftType,
                         call.requiredCount, call.employeeStats, call.strategy,
                         call.date, call.tz)

\* an empty roster and stats that sum to more than 0 (the mean is Infinity): the result
\* is the strategy's ranking of the whole pool, not the pool's own order
C18_Witness ==
    /\ ret.done
    /\ ret.by = "selectWithFairness"
    /\ call.allEmployees = <<>>
    /\ averageShifts(call.employeeStats, call.allEmployees).num > 0
    /\ averageShifts(call.employeeStats, call.allEmployees).den = 0
    /\ Len(call.availableEmployees) = 3
    /\ call.requiredCount = 2
    /\ call.strategy = "balanced"
    /\ ret.out = Slice(StrategyRanking(call.availableEmployees), 2)
    /\ ret.out # Slice(call.availableEmployees, 2)

\* an empty roster and no stats at all (the mean is NaN)
C18_WitnessNaN ==
    /\ ret.done
    /\ ret.by = "selectWithFairness"
    /\ call.allEmployees = <<>>
    /\ averageShifts(call.employeeStats, call.allEmployees).num = 0
    /\ Len(call.availableEmployees) = 3
    /\ call.requiredCount = 1
    /\ call.strategy = "rotate"
    /\ ret.out # Slice(call.availableEmployees, 1)

-----------------------------------------------------------------------------
(* Rules with a value that is not a number *)

\* undefined, 'x', '' and '2x'
NonNumericValues ==
    {JsUndefined, JsString(<<"x">>), JsString(<<>>), JsString(<<"2", "x">>)}

NonNumericRules ==
    {Rule(type, "A", "day", value) :
        type \in {"maxConsecutiveWorkDays", "balanceShifts", "minStaff"},
        value \in NonNumericValues}

NonNumericDayLists ==
    {<<>>,
     <<Shift("A", "day")>>,
     <<Shift("A", "night"), Shift("B", "day")>>,
     <<Shift("A", "off")>>}

InitNonNumeric ==
    /\ scheduleData \in SchedulesOver(MonthDays, NonNumericDayLists)
    /\ holidayDates = NoMap
    /\ \E rule \in NonNumericRules : HandlerInit(rule)

RunEmployeeRule ==
    /\ call.type \in EmployeeRuleTags
    /\ HandlerCall(employeeRuleHandlers(call.type, Context(call)))

RunShiftRule ==
    /\ call.type \in ShiftRuleTags
    /\ HandlerCall(shiftRuleHandlers(call.type, Context(call)))

NextNonNumeric == RunEmployeeRule \/ RunShiftRule

SpecNonNumeric == InitNonNumeric /\ [][NextNonNumeric]_vars

NothingFound ==
    /\ ret.out.count = 0
    /\ ret.out.reports = <<>>
    /\ grid = EmptyGrid

\* C19: for every rule kind that takes a numeric value (maxConsecutiveWorkDays,
\* balanceShifts, minStaff), a rule whose value is non-numeric contributes zero conflicts
\* and zero findings on every schedule, as if the rule were disabled.
C19_NonNumericRuleDisabled == ret.done => NothingFound

\* C19, as the code decides it: minStaff with a non-numeric value finds nothing;
\* maxConsecutiveWorkDays finds nothing unless the value starts with digits, which
\* parseInt takes for the number; balanceShifts finds what it finds with a maximum
\* difference of 2 (or of the leading digits).
C19_NonNumericAsDecided ==
    ret.done =>
        CASE call.type = "minStaff" -> NothingFound
          [] call.type = "maxConsecutiveWorkDays" ->
                 IF call.value = JsString(<<"2", "x">>)
                 THEN ret.out =
                          checkMaxConsecutiveWorkDays(
                              [Context(call) EXCEPT !.rule.value = JsNumber(2)])
                 ELSE NothingFound
          [] call.type = "balanceShifts" ->
                 ret.out = checkShiftBalance(
                               [Context(call) EXCEPT !.rule.value = JsNumber(2)])

\* balanceShifts with the value 'x', A on the day shift on days 1 to 3 and off on day 4:
\* one conflict, reported on day 3
C19_BalanceWitness ==
    /\ ret.done
    /\ call = Rule("balanceShifts", "A", "day", JsString(<<"x">>))
    /\ \A d \in 1..3 : scheduleData[d] = <<Shift("A", "day")>>
    /\ scheduleData[4] = <<Shift("A", "off")>>
    /\ ret.out.count = 1
    /\ ReportDates(ret.out.reports) = <<3>>
    /\ grid[3].conflict

\* minStaff with the value 'x' on a schedule with no day shift at all: nothing found
C19_MinStaffWitness ==
    /\ ret.done
    /\ call = Rule("minStaff", "A", "day", JsString(<<"x">>))
    /\ \A d \in MonthDays : scheduleData[d] = <<>>
    /\ NothingFound

-----------------------------------------------------------------------------
(* The sink on its own: reports and clears in any order *)

MaxReports == 3

\* day 0 is the day before the month and has no cell in the grid
SinkDates == {0, 1, 2}

\* 'Ann is set unavailable on this day' is a part of 'JoAnn is set unavailable on this
\* day'; 'D&N' is a shift label with an ampersand
SinkReasons ==
    {<<"Ann", " is set unavailable on this day">>,
     <<"Jo", "Ann", " is set unavailable on this day">>,
     <<"Bob", " is set unavailable on this day">>,
     <<"D", "&", "N", " is short of staff">>}

InitSink ==
    /\ scheduleData = [d \in AllDays |-> <<>>]
    /\ holidayDates = NoMap
    /\ HandlerInit(NoRule)

SinkReport ==
    /\ Len(ReportsOf(events)) < MaxReports
    /\ \E date \in SinkDates, reason \in SinkReasons :
          /\ grid' = highlightConflict(grid, date, reason)
          /\ events' = Append(events, Event("report", "sink", date, reason))
    /\ UNCHANGED <<Inputs, Direct, pc, idx, totalConflicts, result, runs>>

SinkClear ==
    /\ grid' = clearValidationHighlights(grid)
    /\ events' = <<Event("clear", "start", 0, <<>>)>>
    /\ UNCHANGED <<Inputs, Direct, pc, idx, totalConflicts, result, runs>>

NextSink == SinkReport \/ SinkClear

SpecSink == InitSink /\ [][NextSink]_vars

\* the text a tooltip shows for what innerHTML holds
UnescapeHtml(html) ==
    [i \in 1..Len(html) |-> IF html[i] = "&amp;" THEN "&" ELSE html[i]]

RECURSIVE TooltipItems(_)
\* the findings a tooltip lists: the text between each bullet and its line break
TooltipItems(html) ==
    IF html = <<>> THEN <<>>
    ELSE LET k == CHOOSE i \in 1..Len(html) :
                      /\ html[i] = "<br>"
                      /\ \A j \in 1..(i - 1) : html[j] # "<br>"
         IN <<UnescapeHtml(SubSeq(html, 2, k - 1))>>
                \o TooltipItems(SubSeq(html, k + 1, Len(html)))

\* the reasons reported for date d since the last clear
ReportedSinceClear(d) ==
    {rep.reason : rep \in {r \in Members(ReportsOf(events)) : r.date = d}}

RecordedOnce(items) == \A i, j \in 1..Len(items) : items[i] = items[j] => i = j

ExactTextDedupe(d) ==
    LET items == TooltipItems(grid[d].tooltip)
    IN /\ Members(items) = ReportedSinceClear(d)
       /\ RecordedOnce(items)

\* C20: findings on one date accumulate and are de-duplicated by exact reason text
\* only: for a displayed date, a reason is recorded iff that exact reason was reported
\* for the date since the last clear, a pair reported twice is recorded once, and no
\* report drops, overwrites or suppresses a different reason on the same date.
C20_ExactTextDedupe == \A d \in MonthDays : ExactTextDedupe(d)

\* no ampersand in the reason, and the reason is not a part of what the other one
\* leaves in the tooltip
PlainAmong(reason, reasons) ==
    /\ \A i \in 1..Len(reason) : reason[i] # "&"
    /\ \A other \in reasons \ {reason} :
          ~Includes(<<"* ">> \o EscapeHtml(other) \o <<"<br>">>, reason)

\* C20, as the code decides it: the same holds for every displayed date whose reported
\* reasons have no ampersand and are no part of one another.
C20_ExactTextDedupeOfPlainReasons ==
    \A d \in MonthDays :
        (\A reason \in ReportedSinceClear(d) : PlainAmong(reason, ReportedSinceClear(d)))
            => ExactTextDedupe(d)

\* Ann, Bob and Ann again on day 1: two findings, Ann's first
C20_AccumulateWitness ==
    /\ ReportDates(ReportsOf(events)) = <<1, 1, 1>>
    /\ [i \in 1..3 |-> ReportsOf(events)[i].reason[1]] = <<"Ann", "Bob", "Ann">>
    /\ TooltipItems(grid[1].tooltip) =
           <<<<"Ann", " is set unavailable on this day">>,
             <<"Bob", " is set unavailable on this day">>>>

\* JoAnn and then Ann on day 1: Ann's finding is not recorded
C20_ContainedReasonWitness ==
    /\ ReportDates(ReportsOf(events)) = <<1, 1>>
    /\ ReportsOf(events)[1].reason[1] = "Jo"
    /\ ReportsOf(events)[2].reason[1] = "Ann"
    /\ Len(TooltipItems(grid[1].tooltip)) = 1

\* the D&N finding twice on day 1: recorded twice
C20_AmpersandWitness ==
    /\ ReportDates(ReportsOf(events)) = <<1, 1>>
    /\ ReportsOf(events)[1].reason[1] = "D"
    /\ ReportsOf(events)[2].reason[1] = "D"
    /\ Len(TooltipItems(grid[1].tooltip)) = 2

-----------------------------------------------------------------------------
(* The tie-break of the balanced strategy *)

\* the balance that favours the class worked less of: nightShifts - dayShifts for a
\* day slot, dayShifts - nightShifts for a night slot
SlotBalance(e) ==
    IF call.shiftType = "day" THEN NightShifts(e) - DayShifts(e)
    ELSE DayShifts(e) - NightShifts(e)

PoolIndex(e) == CHOOSE i \in 1..Len(call.availableEmployees) : call.availableEmployees[i] = e

\* fewer totalShifts, or as many and the larger balance
BeforeByBalance(a, b) ==
    \/ TotalShifts(a) < TotalShifts(b)
    \/ TotalShifts(a) = TotalShifts(b) /\ SlotBalance(a) > SlotBalance(b)

TiedOnBalance(a, b) ==
    TotalShifts(a) = TotalShifts(b) /\ SlotBalance(a) = SlotBalance(b)

\* the result is in the order Before and everybody left out comes after it
TakesFirst(Before(_, _)) ==
    /\ \A i, j \in 1..Len(ret.out) : i < j => Before(ret.out[i], ret.out[j])
    /\ \A e \in Members(call.availableEmployees) \ Members(ret.out) :
          \A i \in 1..Len(ret.out) : Before(ret.out[i], e)

BalancedSlotCall ==
    /\ ret.done
    /\ ret.by \in SelectsOnce
    /\ call.strategy = "balanced"
    /\ call.shiftType \in {"day", "night"}
    /\ call.requiredCount < Len(call.availableEmployees)

\* C21: under strategy balanced, employees with equal totalShifts are ordered by the
\* balance tie-break (day slot: larger nightShifts - dayShifts first; night slot: larger
\* dayShifts - nightShifts first), and employees equal on both alphabetically, so the
\* ranking does not depend on the order of the input pool.
C21_BalancedTieBreak ==
    BalancedSlotCall =>
        TakesFirst(LAMBDA a, b :
            \/ BeforeByBalance(a, b)
            \/ TiedOnBalance(a, b) /\ NameRank[a] < NameRank[b])

\* C21, as the earlier revision decides it: getBestEmployeeSelection orders a day or
\* night slot by totalShifts and then by the balance, and leaves employees equal on
\* both in the order of the pool.
C21_BalancedTieBreakOfSelect ==
    (BalancedSlotCall /\ ret.by = "select") =>
        TakesFirst(LAMBDA a, b :
            \/ BeforeByBalance(a, b)
            \/ TiedOnBalance(a, b) /\ PoolIndex(a) < PoolIndex(b))

\* C21, as the later revision decides it: selectEmployeesWithFairness orders by
\* totalShifts alone and leaves employees with equal totalShifts in the order of the pool.
C21_BalancedTieBreakV22 ==
    (BalancedSlotCall /\ ret.by = "selectWithFairness v2.2") =>
        TakesFirst(LAMBDA a, b :
            \/ TotalShifts(a) < TotalShifts(b)
            \/ TotalShifts(a) = TotalShifts(b) /\ PoolIndex(a) < PoolIndex(b))

\* getBestEmployeeSelection, day slot, pool [A, B] with 3 shifts each, A with 3 day shifts
\* and B with 1 day and 2 night shifts: B is taken
C21_BalanceWitness ==
    /\ BalancedSlotCall
    /\ ret.by = "select"
    /\ call.shiftType = "day"
    /\ call.availableEmployees = <<"A", "B">>
    /\ call.requiredCount = 1
    /\ call.employeeStats["A"] = Stats(3, 3, 0)
    /\ call.employeeStats["B"] = Stats(3, 1, 2)
    /\ ret.out = <<"B">>

\* getBestEmployeeSelection, day slot, pool [B, A] with the same stats: B is taken
C21_PoolOrderWitness ==
    /\ BalancedSlotCall
    /\ ret.by = "select"
    /\ call.shiftType = "day"
    /\ call.availableEmployees = <<"B", "A">>
    /\ call.requiredCount = 1
    /\ call.employeeStats["A"] = call.employeeStats["B"]
    /\ ret.out = <<"B">>

\* the later revision, day slot, pool [A, B] with 3 shifts each: A is taken although B
\* has the larger balance
C21_NoTieBreakWitness ==
    /\ BalancedSlotCall
    /\ ret.by = "selectWithFairness v2.2"
    /\ call.shiftType = "day"
    /\ call.availableEmployees = <<"A", "B">>
    /\ call.requiredCount = 1
    /\ call.employeeStats["A"] = Stats(3, 3, 0)
    /\ call.employeeStats["B"] = Stats(3, 1, 2)
    /\ ret.out = <<"A">>

-----------------------------------------------------------------------------
(* Calls of getUnderScheduledEmployees: the stats and the roster are in `call`, *)
(* the list returned goes to `ret`.                                            *)

InitUnderScheduled ==
    /\ scheduleData = [d \in AllDays |-> <<>>]
    /\ holidayDates = NoMap
    /\ employeeAvailability = NoMap
    /\ employeeRules = NoMap
    /\ shiftRules = NoMap
    /\ EngineIdle
    /\ \E employeeStats \in [Selectable -> StatChoices], employees \in Pools :
           call = [employeeStats |-> employeeStats, allEmployees |-> employees]
    /\ ret = NotSelected

RunUnderScheduled ==
    Selected("underScheduled",
        getUnderScheduledEmployees(call.employeeStats, call.allEmployees))

SpecUnderScheduled == InitUnderScheduled /\ [][RunUnderScheduled]_vars

\* C22: the under-scheduled set is exactly the roster members whose totalShifts (0
\* without a stats entry) is strictly below the mean of totalShifts over the roster
\* members; members exactly at the mean are not in it, and stats entries of employees
\* outside the roster do not change it.
C22_UnderScheduledSet == ret.done => Members(ret.out) = BelowRosterMean

\* no employee outside the roster has shifts in the stats
StatsWithinRoster ==
    \A e \in Selectable \ Members(call.allEmployees) : TotalShifts(e) = 0

\* the roster members whose totalShifts is strictly below the sum over every stats
\* entry divided by the length of the roster
BelowStatsMean ==
    {e \in Members(call.allEmployees) :
        TotalShifts(e) * Len(call.allEmployees) < SumOfTotalShifts(call.employeeStats)}

\* C22, as the code decides it: the set is measured against the sum over every stats
\* entry divided by the roster's length, which is the roster's mean when nobody outside
\* the roster has shifts in the stats; the list ascends in totalShifts.
C22_UnderScheduledAsComputed ==
    ret.done =>
        /\ Members(ret.out) = BelowStatsMean
        /\ Cardinality(Members(ret.out)) = Len(ret.out)
        /\ \A i, j \in 1..Len(ret.out) :
               i < j => TotalShifts(ret.out[i]) <= TotalShifts(ret.out[j])
        /\ StatsWithinRoster => Members(ret.out) = BelowRosterMean

\* roster [A, B, C] with 1, 3 and 5 shifts: the mean is 3, A alone is under-scheduled
\* and B, exactly at the mean, is not
C22_AtMeanWitness ==
    /\ ret.done
    /\ call.allEmployees = <<"A", "B", "C">>
    /\ TotalShifts("A") = 1 /\ TotalShifts("B") = 3 /\ TotalShifts("C") = 5
    /\ ret.out = <<"A">>

\* roster [A, B] with 3 shifts each and C, outside the roster, with 5: A and B are both
\* returned as under-scheduled
C22_OutsideRosterWitness ==
    /\ ret.done
    /\ call.allEmployees = <<"A", "B">>
    /\ TotalShifts("A") = 3 /\ TotalShifts("B") = 3 /\ TotalShifts("C") = 5
    /\ ret.out = <<"A", "B">>

-----------------------------------------------------------------------------
(* The assignment-time functions *)

\* for (let i = 0; i < 14; i++)
LookbackLimit == 14

\* a date argument: the text 'YYYY-MM-DD' of a day, or a Date object at local midnight
DateString(day) == [text |-> TRUE, day |-> day]
DateObject(day) == [text |-> FALSE, day |-> day]

\* the local day of new Date(date): a date text is parsed as midnight UTC, which west
\* of UTC is the evening of the day before
LocalDay(date, tz) == IF date.text /\ tz = "west" THEN date.day - 1 ELSE date.day

calculateConsecutiveWorkDays(employee, targetDate, sd, tz) ==
    LET checkDate == LocalDay(targetDate, tz) - 1
        count[i \in 0..LookbackLimit] ==
            IF i < LookbackLimit
               /\ SomeShift(sd, checkDate - i, employee, NotOff(sd, checkDate - i))
            THEN 1 + count[i + 1]
            ELSE 0
    IN count[0]

-----------------------------------------------------------------------------
(* Calls of calculateConsecutiveWorkDays for employee A and the 1st of the month *)

\* the days the lookback can reach from the target, with one day beyond it on each side
LookbackDays == (1 - (LookbackLimit + 1))..2

FarDayLists == {<<>>, <<Shift("A", "day")>>}

NearDayLists == {<<Shift("A", "night")>>, <<Shift("A", "off")>>, <<Shift("B", "day")>>}

TargetDates ==
    {[date |-> DateString(1), tz |-> "east"],
     [date |-> DateString(1), tz |-> "west"],
     [date |-> DateObject(1), tz |-> "east"],
     [date |-> DateObject(1), tz |-> "west"]}

NotCounted == [done |-> FALSE, out |-> 0]

InitLookback ==
    /\ \E far \in [LookbackDays \ {-1, 0} -> FarDayLists], near \in [{-1, 0} -> NearDayLists] :
           scheduleData = [d \in LookbackDays |-> IF d < -1 \/ d > 0 THEN far[d] ELSE near[d]]
    /\ holidayDates = NoMap
    /\ employeeAvailability = NoMap
    /\ employeeRules = NoMap
    /\ shiftRules = NoMap
    /\ EngineIdle
    /\ \E target \in TargetDates :
           call = [employee |-> "A", targetDate |-> target.date, tz |-> target.tz]
    /\ ret = NotCounted

RunLookback ==
    /\ ~ret.done
    /\ ret' = [done |-> TRUE,
               out |-> calculateConsecutiveWorkDays(call.employee, call.targetDate,
                                                    scheduleData, call.tz)]
    /\ UNCHANGED <<Inputs, call, grid, pc, idx, totalConflicts, events, result, runs>>

SpecLookback == InitLookback /\ [][RunLookback]_vars

\* the number of days worked in a row going back from day d, LookbackLimit at most
StreakFrom(employee, d) ==
    Cardinality({k \in 1..LookbackLimit :
                    \A i \in 0..(k - 1) : Works(employee, d - i)})

\* C23: calculateConsecutiveWorkDays returns the number of consecutive days immediately
\* before targetDate, starting at targetDate - 1 and going backward, on which the
\* employee has a non-off assignment, stopping at the first day without one and capped
\* at 14; no assignment on targetDate or later matters.
C23_DaysWorkedBeforeTarget ==
    ret.done => ret.out = StreakFrom(call.employee, call.targetDate.day - 1)

\* C23, as the code decides it: the count starts the day before the local day of
\* new Date(targetDate), which is targetDate for a Date object and for a date text on a
\* host at UTC or east of it.
C23_DaysWorkedBeforeLocalDay ==
    ret.done =>
        /\ ret.out = StreakFrom(call.employee, LocalDay(call.targetDate, call.tz) - 1)
        /\ (~call.targetDate.text \/ call.tz = "east")
               => ret.out = StreakFrom(call.employee, call.targetDate.day - 1)

\* A works the fifteen days before the 1st and the 1st: the answer is 14
C23_CapWitness ==
    /\ ret.done
    /\ call.tz = "east"
    /\ \A d \in LookbackDays : d <= 1 => Works("A", d)
    /\ ret.out = LookbackLimit

\* A works the 1st and the two days before the day before the 1st, which is a day
\* off: the answer is 0
C23_DayOffWitness ==
    /\ ret.done
    /\ call.tz = "east"
    /\ Works("A", 1) /\ Works("A", 2)
    /\ scheduleData[0] = <<Shift("A", "off")>>
    /\ Works("A", -1) /\ Works("A", -2)
    /\ ret.out = 0

\* west of UTC, the text of the 1st, the day before it a day off and three days worked
\* before that: the answer is 3
C23_WestOfUTCWitness ==
    /\ ret.done
    /\ call.tz = "west"
    /\ call.targetDate.text
    /\ scheduleData[0] = <<Shift("A", "off")>>
    /\ Works("A", -1) /\ Works("A", -2) /\ Works("A", -3) /\ ~Works("A", -4)
    /\ ret.out = 3

wouldCause24HourShift(employee, date, shiftType, sd, holidays, tz) ==
    IF shiftType = "off" \/ ~(shiftType = "day" \/ shiftType = "weekend-day") THEN FALSE
    ELSE LET prevDate == LocalDay(date, tz) - 1
             nightShifts == IF isHoliday(prevDate, holidays)
                            THEN {"weekend-night"} ELSE {"night"}
         IN SomeShift(sd, prevDate, employee, nightShifts)

\* isHoliday(date, holidayDates) reads the flag of the date text itself; the day before
\* and the day after are taken from new Date(date)
wouldViolateShiftGap(employee, date, shiftType, sd, holidays, tz) ==
    IF shiftType = "off" THEN FALSE
    ELSE LET prevDate == LocalDay(date, tz) - 1
             nextDate == LocalDay(date, tz) + 1
             currentIsHoliday == isHoliday(date.day, holidays)
             prevIsHoliday == isHoliday(prevDate, holidays)
             nextIsHoliday == isHoliday(nextDate, holidays)
             prevShift == FirstWorkShift(sd, prevDate, employee)
             nextShift == FirstWorkShift(sd, nextDate, employee)
         IN IF prevShift # NoShift
               /\ ~hasEnoughShiftGap(prevShift, shiftType, prevIsHoliday, currentIsHoliday)
            THEN TRUE
            ELSE nextShift # NoShift
                 /\ ~hasEnoughShiftGap(shiftType, nextShift, currentIsHoliday, nextIsHoliday)

-----------------------------------------------------------------------------
(* An assignment: the two predicates are asked for placing a shift of employee A *)
(* on a day where A has no assignment, the shift is added to the schedule, and  *)
(* the two rules of the validator are run for A.                               *)

\* what a day holds, with its holiday flag: weekday shifts on a working day, weekend
\* shifts on a holiday
NeighbourDays ==
    [holiday : {FALSE},
     list : {<<>>, <<Shift("A", "day")>>, <<Shift("A", "evening")>>, <<Shift("A", "night")>>,
             <<Shift("A", "off")>>, <<Shift("B", "night")>>}]
    \cup
    [holiday : {TRUE},
     list : {<<>>, <<Shift("A", "weekend-day")>>, <<Shift("A", "weekend-night")>>,
             <<Shift("A", "off")>>, <<Shift("B", "weekend-night")>>}]

\* the day of the assignment: its flag, what it holds already, and the shift to place
AssignmentDays ==
    [holiday : {FALSE}, list : {<<>>, <<Shift("B", "day")>>},
     shiftType : {"day", "evening", "night", "off"}]
    \cup
    [holiday : {TRUE}, list : {<<>>, <<Shift("B", "weekend-day")>>},
     shiftType : {"weekend-day", "weekend-night", "off"}]

NotAsked ==
    [at |-> "start", would24 |-> FALSE, wouldGap |-> FALSE,
     out24 |-> Outcome(0, <<>>), outGap |-> Outcome(0, <<>>)]

InitAssign ==
    /\ \E D \in MonthDays, around \in [{-2, -1, 1} -> NeighbourDays],
          on \in AssignmentDays, tz \in TimeZones :
          /\ scheduleData =
                 [d \in AllDays |->
                     IF d = D THEN on.list
                     ELSE IF d - D \in DOMAIN around THEN around[d - D].list
                     ELSE <<>>]
          /\ holidayDates =
                 Present([d \in AllDays |->
                     IF d = D THEN on.holiday
                     ELSE IF d - D \in DOMAIN around THEN around[d - D].holiday
                     ELSE FALSE])
          /\ call = [employee |-> "A", date |-> DateString(D),
                     shiftType |-> on.shiftType, tz |-> tz]
    /\ employeeAvailability = NoMap
    /\ employeeRules = NoMap
    /\ shiftRules = NoMap
    /\ EngineIdle
    /\ ret = NotAsked

AskPredicates ==
    /\ ret.at = "start"
    /\ ret' = [ret EXCEPT
                  !.at = "asked",
                  !.would24 = wouldCause24HourShift(call.employee, call.date,
                                  call.shiftType, scheduleData, holidayDates, call.tz),
                  !.wouldGap = wouldViolateShiftGap(call.employee, call.date,
                                   call.shiftType, scheduleData, holidayDates, call.tz)]
    /\ UNCHANGED <<Inputs, call, grid, pc, idx, totalConflicts, events, result, runs>>

\* scheduleData[date].push({employee, shift})
Assign ==
    /\ ret.at = "asked"
    /\ scheduleData' =
           [scheduleData EXCEPT
               ![call.date.day] = Append(@, Shift(call.employee, call.shiftType))]
    /\ ret' = [ret EXCEPT !.at = "assigned"]
    /\ UNCHANGED <<holidayDates, employeeAvailability, employeeRules, shiftRules,
                   call, grid, pc, idx, totalConflicts, events, result, runs>>

RunNo24HourRule ==
    /\ ret.at = "assigned"
    /\ LET out == checkNo24HourShift(
                      Context(Rule("no24HourShift", call.employee, "none", JsUndefined)))
       IN /\ ret' = [ret EXCEPT !.at = "checked24", !.out24 = out]
          /\ grid' = highlightAll(grid, out.reports)
    /\ UNCHANGED <<Inputs, call, pc, idx, totalConflicts, events, result, runs>>

RunNoDirectTransitionRule ==
    /\ ret.at = "checked24"
    /\ LET out == checkNoDirectShiftTransition(
                      Context(Rule("noDirectShiftTransition", call.employee, "none",
                                   JsUndefined)))
       IN /\ ret' = [ret EXCEPT !.at = "validated", !.outGap = out]
          /\ grid' = highlightAll(grid, out.reports)
    /\ UNCHANGED <<Inputs, call, pc, idx, totalConflicts, events, result, runs>>

NextAssign == AskPredicates \/ Assign \/ RunNo24HourRule \/ RunNoDirectTransitionRule

SpecAssign == InitAssign /\ [][NextAssign]_vars

\* each conflict of the two rules is reported on two days, one report after the other:
\* some conflict has the pair of days {first, second}
PairReported(reports, first, second) ==
    \E k \in 1..(Len(reports) \div 2) :
        {reports[2 * k - 1].date, reports[2 * k].date} = {first, second}

\* some conflict has a pair of days that includes day d
PairIncludes(reports, d) ==
    PairReported(reports, d - 1, d) \/ PairReported(reports, d, d + 1)

\* C24: for an employee with no assignment on date D, if wouldCause24HourShift and
\* wouldViolateShiftGap both return false for placing shift S on D, then after adding
\* (employee, S) to D the no24HourShift and noDirectShiftTransition rules for the
\* employee report no conflict whose pair of days includes D; and if either predicate
\* returns true, the corresponding rule reports such a conflict.
C24_PredicatesAgreeWithValidator ==
    ret.at = "validated" =>
        LET D == call.date.day
        IN /\ (~ret.would24 /\ ~ret.wouldGap)
                  => /\ ~PairIncludes(ret.out24.reports, D)
                     /\ ~PairIncludes(ret.outGap.reports, D)
           /\ ret.would24 => PairIncludes(ret.out24.reports, D)
           /\ ret.wouldGap => PairIncludes(ret.outGap.reports, D)

\* C24, as the code decides it, on a host at UTC or east of it: wouldCause24HourShift
\* answers for the pair (D - 1, D) of the no24HourShift rule and not for the pair
\* (D, D + 1); wouldViolateShiftGap answers for both pairs of the
\* noDirectShiftTransition rule, of which the rule itself leaves out the pair with the
\* day before the first of the month.
C24_PredicatesAsDecided ==
    (ret.at = "validated" /\ call.tz = "east") =>
        LET D == call.date.day
        IN /\ ret.would24 <=> PairReported(ret.out24.reports, D - 1, D)
           /\ PairIncludes(ret.outGap.reports, D) => ret.wouldGap
           /\ D > 1 => (ret.wouldGap <=> PairIncludes(ret.outGap.reports, D))

\* a day shift placed on the 2nd after a night shift on the 1st: both predicates answer
\* true and both rules report the two days
C24_AgreeWitness ==
    /\ ret.at = "validated"
    /\ call.tz = "east"
    /\ call.date.day = 2
    /\ call.shiftType = "day"
    /\ Holds("A", 1, "night")
    /\ ret.would24 /\ ret.wouldGap
    /\ PairReported(ret.out24.reports, 1, 2)
    /\ PairReported(ret.outGap.reports, 1, 2)

\* a weekend-night shift placed on a holiday before a holiday with a weekend-day shift:
\* both predicates answer false and the no24HourShift rule reports the two days
C24_HolidayNightWitness ==
    /\ ret.at = "validated"
    /\ call.tz = "east"
    /\ call.date.day = 2
    /\ call.shiftType = "weekend-night"
    /\ Holds("A", 3, "weekend-day")
    /\ ~ret.would24 /\ ~ret.wouldGap
    /\ PairReported(ret.out24.reports, 2, 3)

\* an evening shift placed on the 1st after a day shift on the last day of the month
\* before: wouldViolateShiftGap answers true and the rule reports nothing
C24_MonthStartWitness ==
    /\ ret.at = "validated"
    /\ call.tz = "east"
    /\ call.date.day = 1
    /\ call.shiftType = "evening"
    /\ Holds("A", 0, "day")
    /\ ret.wouldGap
    /\ ret.outGap.count = 0

=============================================================================
